---- MODULE Spec2Model ----
(***************************************************************************)
(* Model of the Cycles Alembic procedural (intern/cycles/render/alembic.cpp)*)
(*                                                                         *)
(* Time values (chrono_t) are counted in ticks of 1/24 second, so that the *)
(* frame time frame / frame_rate is an integer for the default frame rate. *)
(* Matrices are 4x4 tuples of integers in Imath's row-vector layout (the   *)
(* translation is the fourth row).                                         *)
(***************************************************************************)
EXTENDS Integers, Sequences, FiniteSets, TLC

\* ------------------------------------------------------------------ bounds
\* History counters saturate at this value.
MaxCount == 3

\* ------------------------------------------------------- program constants
\* SOCKET_FLOAT(frame, "Frame", 1.0f) / constructor
DefaultFrame == 1
\* SOCKET_FLOAT(frame_rate, "Frame Rate", 24.0f) / constructor
DefaultFrameRate == 24

Min2(a, b) == IF a < b THEN a ELSE b
Max2(a, b) == IF a > b THEN a ELSE b
Bump(n) == Min2(n + 1, MaxCount)

\* ---------------------------------------------------------------- matrices
\* M44d(): the identity matrix.
M44d_identity ==
  << <<1, 0, 0, 0>>, <<0, 1, 0, 0>>, <<0, 0, 1, 0>>, <<0, 0, 0, 1>> >>

\* M44d(T a): every one of the sixteen elements is a.
M44d_fill(a) == [i \in 1..4 |-> [j \in 1..4 |-> a]]

\* M44d::setScale on an identity matrix.
setScale(s) ==
  << <<s[1], 0, 0, 0>>, <<0, s[2], 0, 0>>, <<0, 0, s[3], 0>>, <<0, 0, 0, 1>> >>

\* M44d::setTranslation on an identity matrix.
setTranslation(t) ==
  << <<1, 0, 0, 0>>, <<0, 1, 0, 0>>, <<0, 0, 1, 0>>, <<t[1], t[2], t[3], 1>> >>

\* M44d operator *.
M44d_mul(a, b) ==
  [i \in 1..4 |-> [j \in 1..4 |->
     a[i][1] * b[1][j] + a[i][2] * b[2][j] + a[i][3] * b[3][j] + a[i][4] * b[4][j]]]

\* The matrices stored in the modelled archives: a scale followed by a
\* translation (no shear, no rotation).
ScaleTrans(s, t) == M44d_mul(setScale(s), setTranslation(t))

\* Mutation: the axes are swapped without the change of sign.
make_float3_swapped(v) == <<v[1], v[3], v[2]>>

\* static float3 make_float3_from_yup(const Imath::Vec3<float> &v)
make_float3_from_yup(v) == <<v[1], -v[3], v[2]>>

\* static M44d convert_yup_zup(const M44d &mtx), for matrices without shear
\* and rotation: extractSHRT yields the diagonal as scale, a zero rotation
\* and the fourth row as translation.
convert_yup_zup(mtx) ==
  LET scale == <<mtx[1][1], mtx[2][2], mtx[3][3]>>
      translation == <<mtx[4][1], mtx[4][2], mtx[4][3]>>
      rot_mat == M44d_identity
      scale_mat == setScale(<<scale[1], scale[3], scale[2]>>)
      trans_mat == setTranslation(<<translation[1], -translation[3], translation[2]>>)
  IN M44d_mul(M44d_mul(scale_mat, rot_mat), trans_mat)

\* static Transform make_transform(const Abc::M44d &a): trans[j][i] = m[i][j]
make_transform(a) ==
  LET m == convert_yup_zup(a)
  IN [j \in 1..3 |-> [i \in 1..4 |-> m[i][j]]]

\* transform_identity()
transform_identity == << <<1, 0, 0, 0>>, <<0, 1, 0, 0>>, <<0, 0, 1, 0>> >>

\* ------------------------------------------------------------ sample maps
\* MatrixSampleMap is std::map<chrono_t, M44d>: a function on a finite set of
\* times.  The empty map:
EmptySampleMap == [t \in {} |-> M44d_identity]

\* A MatrixSampleMap pointer: nullptr or the address of a map.
NullSamples == [null |-> TRUE, map |-> EmptySampleMap]
PtrSamples(m) == [null |-> FALSE, map |-> m]

SetMin(S) == CHOOSE x \in S : \A y \in S : x <= y
SetMax(S) == CHOOSE x \in S : \A y \in S : x >= y


RECURSIVE SortedSeq(_)
\* The elements of a finite set of integers in increasing order (the
\* iteration order of std::map and std::set).
SortedSeq(S) ==
  IF S = {} THEN <<>> ELSE <<SetMin(S)>> \o SortedSeq(S \ {SetMin(S)})

\* static M44d get_matrix_for_time(const MatrixSampleMap &samples, chrono_t time)
get_matrix_for_time(samples, time) ==
  IF time \in DOMAIN samples THEN samples[time] ELSE M44d_identity

\* void transform_decompose(...), for matrices without shear and rotation.
transform_decompose(mat) ==
  [scale |-> <<mat[1][1], mat[2][2], mat[3][3]>>,
   translation |-> <<mat[4][1], mat[4][2], mat[4][3]>>]

\* M44d transform_compose(...), with zero shear and the identity rotation.
transform_compose(scale, translation) ==
  M44d_mul(setScale(scale), setTranslation(translation))

\* Imath::lerp(a, b, t) = a * (1 - t) + b * t with t = num / den.  The archive
\* values of the model are chosen so that the division is exact.
lerp(a, b, num, den) ==
  [k \in 1..3 |-> (a[k] * (den - num) + b[k] * num) \div den]

\* Imath::Quatd as <<r, x, y, z>>; operator ^ is the four-dimensional dot
\* product and unary minus negates every component.
quat_dot(q1, q2) == q1[1] * q2[1] + q1[2] * q2[2] + q1[3] * q2[3] + q1[4] * q2[4]
quat_neg(q) == <<-q[1], -q[2], -q[3], -q[4]>>

\* Mutation: the target quaternion is passed on as it was extracted.
slerp_rotations_unchecked(prev_rotation, next_rotation) ==
  [prev |-> prev_rotation, next |-> next_rotation]

\* The two rotations get_interpolated_matrix_for_time hands to Imath::slerp:
\*   if ((prev_rotation ^ next_rotation) < 0) next_rotation = -next_rotation;
slerp_rotations(prev_rotation, next_rotation) ==
  [prev |-> prev_rotation,
   next |-> IF quat_dot(prev_rotation, next_rotation) < 0
            THEN quat_neg(next_rotation) ELSE next_rotation]

RECURSIVE bracket_scan(_, _, _, _)
\* The loop of get_interpolated_matrix_for_time over the samples in key
\* order; acc = <<prev_time, next_time>>.
bracket_scan(keys, i, time, acc) ==
  IF i > Len(keys) THEN acc
  ELSE LET current_time == keys[i]
           prev_time == IF current_time > acc[1] /\ current_time <= time
                        THEN current_time ELSE acc[1]
           next_time == IF current_time > acc[2] /\ current_time >= time
                        THEN current_time ELSE acc[2]
       IN bracket_scan(keys, i + 1, time, <<prev_time, next_time>>)

\* Mutation: only the exact match is looked up; no clamping to the first or
\* the last sample and no single-sample shortcut.
get_exact_matrix_for_time(samples, time) == get_matrix_for_time(samples, time)

\* static M44d get_interpolated_matrix_for_time(const MatrixSampleMap &samples,
\*                                              chrono_t time)
get_interpolated_matrix_for_time(samples, time) ==
  LET keys == DOMAIN samples
      first == SetMin(keys)
      last == SetMax(keys)
  IN IF keys = {} THEN M44d_identity
     ELSE IF time \in keys THEN samples[time]
     ELSE IF Cardinality(keys) = 1 THEN samples[first]
     ELSE IF time <= first THEN samples[first]
     ELSE IF time >= last THEN samples[last]
     ELSE LET b == bracket_scan(SortedSeq(keys), 1, time, <<first, last>>)
              prev_time == b[1]
              next_time == b[2]
              prev == transform_decompose(get_matrix_for_time(samples, prev_time))
              next == transform_decompose(get_matrix_for_time(samples, next_time))
              num == time - prev_time
              den == next_time - prev_time
          IN transform_compose(lerp(prev.scale, next.scale, num, den),
                               lerp(prev.translation, next.translation, num, den))

\* Mutation: the parent matrix is on the left of the product.
concatenate_parent_first(parent_samples, local_samples) ==
  LET union_of_samples == DOMAIN parent_samples \cup DOMAIN local_samples
  IN [time \in union_of_samples |->
        M44d_mul(get_interpolated_matrix_for_time(parent_samples, time),
                 get_interpolated_matrix_for_time(local_samples, time))]

\* static void concatenate_xform_samples(parent_samples, local_samples,
\*                                       output_samples)
concatenate_xform_samples(parent_samples, local_samples) ==
  LET union_of_samples == DOMAIN parent_samples \cup DOMAIN local_samples
  IN [time \in union_of_samples |->
        M44d_mul(get_interpolated_matrix_for_time(local_samples, time),
                 get_interpolated_matrix_for_time(parent_samples, time))]

\* ------------------------------------------------------------ time sampling
\* Alembic TimeSampling, uniform: sample i is at start + i * step.
TimeSampling(start, step) == [start |-> start, step |-> step]

\* TimeSampling(): one sample per second starting at time zero.
DefaultTimeSampling == TimeSampling(0, 24)

\* TimeSampling::getSampleTime(index)
getSampleTime(ts, index) == ts.start + index * ts.step

\* TimeSampling::getFloorIndex(time, numSamples).first
getFloorIndex(ts, time, numSamples) ==
  Max2(0, Min2(numSamples - 1, (time - ts.start) \div ts.step))

\* ----------------------------------------------------------------- archives
\* The archive reader is an external collaborator: an archive is a tree of
\* nodes, node 0 being the top object.  Children are visited in id order.
\* A geometry parameter (IV2fGeomParam, IC3fGeomParam, IC4fGeomParam): its
\* name, value type, scope and, per sample, the values and the indices.
GeomParam(name, type, scope, samples, ts) ==
  [valid |-> TRUE, name |-> name, type |-> type, scope |-> scope,
   samples |-> samples, ts |-> ts]

\* An invalid parameter (the schema has none).
NoParam ==
  [valid |-> FALSE, name |-> "", type |-> "none", scope |-> "kUnknownScope",
   samples |-> <<>>, ts |-> DefaultTimeSampling]

ParamSample(vals, indices) == [vals |-> vals, indices |-> indices]

Node(name, kind, parent) ==
  [name |-> name, kind |-> kind, parent |-> parent,
   num_ops |-> 0, xforms |-> <<>>, ts |-> DefaultTimeSampling, samples |-> <<>>,
   uvs |-> NoParam, arb |-> <<>>]

XformNode(name, parent, xforms, ts) ==
  [Node(name, "Xform", parent) EXCEPT
     !.num_ops = IF xforms = <<>> THEN 0 ELSE 1, !.xforms = xforms, !.ts = ts]

GeomNode(name, kind, parent, samples, ts) ==
  [Node(name, kind, parent) EXCEPT !.samples = samples, !.ts = ts]

MeshSample(positions, face_counts, face_indices) ==
  [positions |-> positions, face_counts |-> face_counts,
   face_indices |-> face_indices, curves_num_vertices |-> <<>>]

CurvesSample(positions, curves_num_vertices) ==
  [positions |-> positions, face_counts |-> <<>>, face_indices |-> <<>>,
   curves_num_vertices |-> curves_num_vertices]

Quad(z) == MeshSample(<< <<0, 0, z>>, <<2, 0, z>>, <<2, 2, z>>, <<0, 2, z>> >>,
                      <<4>>, <<0, 1, 2, 3>>)

TriQuad(z) == MeshSample(<< <<0, 0, z>>, <<2, 0, z>>, <<2, 2, z>>, <<0, 2, z>>, <<4, 1, z>> >>,
                         <<3, 4>>, <<1, 4, 2, 0, 1, 2, 3>>)

Strands(y) == CurvesSample(<< <<0, y, 0>>, <<0, y, 1>>, <<1, y, 0>>, <<1, y, 1>>, <<1, y, 2>> >>,
                           <<2, 3>>)

\* getUVsParam() / getArbGeomParams() of a mesh node.
WithParams(node, uvs, arb) == [node EXCEPT !.uvs = uvs, !.arb = arb]

\* Per-corner UVs of a quad, indexed.
QuadUVs(u) == ParamSample(<< <<u, 0>>, <<u + 1, 0>>, <<u + 1, 1>>, <<u, 1>> >>, <<0, 1, 2, 3>>)

\* One RGB colour per entry (per vertex or per corner of a quad).
QuadColors3 == ParamSample(<< <<1, 0, 0>>, <<0, 1, 0>>, <<0, 0, 1>>, <<1, 1, 1>> >>, <<0, 1, 2, 3>>)

\* One RGBA colour per entry.
QuadColors4 == ParamSample(<< <<1, 0, 0, 1>>, <<0, 1, 0, 1>>, <<0, 0, 1, 0>>, <<1, 1, 1, 1>> >>,
                           <<0, 1, 2, 3>>)

Translate(x, y, z) == ScaleTrans(<<1, 1, 1>>, <<x, y, z>>)

\* Archive "a.abc".  Translations are in half units.
ArchiveA ==
  <<
    \* 1: animated transform; identity at t = 0, translation by (0,1,0) at t = 1s
    XformNode("xa", 0, <<M44d_identity, Translate(0, 2, 0)>>, TimeSampling(0, 24)),
    \* 2: mesh with two samples
    WithParams(GeomNode("mesh", "PolyMesh", 1, <<Quad(0), Quad(1)>>, TimeSampling(0, 24)),
               GeomParam("uv", "V2f_uv", "kFacevaryingScope",
                         <<QuadUVs(0), QuadUVs(1)>>, TimeSampling(0, 24)),
               << GeomParam("Cd", "C3f", "kFacevaryingScope",
                            <<QuadColors3, QuadColors3>>, TimeSampling(0, 24)),
                  GeomParam("Cv", "C4f", "kVaryingScope",
                            <<QuadColors4, QuadColors4>>, TimeSampling(0, 24)),
                  GeomParam("st", "V2f_uv", "kFacevaryingScope",
                            <<QuadUVs(2), QuadUVs(3)>>, TimeSampling(0, 24)),
                  GeomParam("N2", "V2f", "kFacevaryingScope",
                            <<QuadUVs(0), QuadUVs(0)>>, TimeSampling(0, 24)),
                  GeomParam("Cu", "C3f", "kUniformScope",
                            <<QuadColors3, QuadColors3>>, TimeSampling(0, 24)),
                  GeomParam("sv", "V2f_uv", "kVaryingScope",
                            <<QuadUVs(0), QuadUVs(1)>>, TimeSampling(0, 24)) >>),
    \* 3: face set below the mesh
    Node("fs", "FaceSet", 2),
    \* 4: transform with two bit-identical samples
    XformNode("xc", 0, <<ScaleTrans(<<2, 1, 1>>, <<1, 2, 3>>),
                                ScaleTrans(<<2, 1, 1>>, <<1, 2, 3>>)>>, TimeSampling(0, 24)),
    \* 5: curves with one sample
    GeomNode("curves", "Curves", 4, <<Strands(0)>>, TimeSampling(0, 24)),
    \* 6: transform without operations
    XformNode("xn", 0, <<>>, DefaultTimeSampling),
    \* 7: mesh with one sample and no transform above it
    GeomNode("mesh", "PolyMesh", 6, <<TriQuad(0)>>, TimeSampling(0, 24)),
    \* 8: subdivision surface with a mesh below it
    Node("sd", "SubD", 0),
    GeomNode("mesh", "PolyMesh", 8, <<Quad(0)>>, TimeSampling(0, 24)),
    \* 10: point cloud with a mesh below it
    Node("pt", "Points", 0),
    GeomNode("mesh", "PolyMesh", 10, <<Quad(2)>>, TimeSampling(0, 24)),
    \* 12: transform nested in the animated transform, one sample at t = 0.5s
    XformNode("xb", 1, <<ScaleTrans(<<1, 1, 1>>, <<4, 0, 0>>)>>, TimeSampling(12, 24)),
    \* 13: curves with two samples below the nested transform
    GeomNode("curves", "Curves", 12, <<Strands(0), Strands(1)>>,
             TimeSampling(0, 24)),
    \* 14: transform without operations below the transform /xc
    XformNode("xp", 4, <<>>, DefaultTimeSampling),
    \* 15: mesh below it that no wrapper is declared for
    GeomNode("loose", "PolyMesh", 14, <<Quad(0)>>, TimeSampling(0, 24))
  >>

\* Archive "b.abc".  Translations are in half units.
ArchiveB ==
  <<
    \* 1: transform with two keyframes; identity at t = 0, translation by
    \* (0,1,0) at t = 1s
    XformNode("xa", 0, <<M44d_identity, Translate(0, 2, 0)>>, TimeSampling(0, 24)),
    \* 2: mesh with one position sample
    GeomNode("mesh", "PolyMesh", 1, <<TriQuad(1)>>, DefaultTimeSampling),
    XformNode("xz", 0, <<>>, DefaultTimeSampling),
    GeomNode("mesh", "Curves", 3, <<Strands(2)>>, TimeSampling(0, 24)),
    \* 5: NURBS patch with curves below it that no wrapper is declared for
    Node("nu", "NuPatch", 0),
    GeomNode("hair", "Curves", 5, <<Strands(0)>>, TimeSampling(0, 24))
  >>

\* The file paths the model sets; factory.getArchive succeeds on the first two.
GoodPaths == {"a.abc", "b.abc"}
BadPaths == {"bad.abc"}
EmptyPath == ""
Paths == GoodPaths \cup BadPaths

\* The IArchive handle: invalid, or the archive that was opened.
NoArchive == "none"

\* factory.getArchive(filepath.c_str())
getArchive(path) == IF path \in GoodPaths THEN path ELSE NoArchive

Tree(arch) == IF arch = "a.abc" THEN ArchiveA ELSE IF arch = "b.abc" THEN ArchiveB ELSE <<>>

\* IObject::getNumChildren / getChildHeader(i): the children of node p in order.
Children(arch, p) ==
  SortedSeq({n \in DOMAIN Tree(arch) : Tree(arch)[n].parent = p})

RECURSIVE getFullName(_, _)
\* IObject::getFullName(): the names from the top object down to the node.
getFullName(arch, n) ==
  IF n = 0 THEN <<>>
  ELSE Append(getFullName(arch, Tree(arch)[n].parent), Tree(arch)[n].name)

\* A default-constructed (invalid) IObject.
NoObject == 0

\* IPolyMesh::matches / ICurves::matches on object->iobject.getHeader()
header_kind(arch, iobject) ==
  IF iobject = NoObject THEN "None" ELSE Tree(arch)[iobject].kind

\* -------------------------------------------------------------- data store
\* DataStore<T>: the samples in insertion order and the declared sampling.
DataStore(ts) == [data |-> <<>>, time_sampling |-> ts]

\* DataStore::add_data(data, time)
add_data(store, data, time) ==
  [store EXCEPT !.data = Append(@, [time |-> time, data |-> data])]

\* DataStore::set_time_sampling
set_time_sampling(store, ts) == [store EXCEPT !.time_sampling = ts]

\* DataStore::data_for_time(time): 0 stands for "none", otherwise the index of
\* the sample whose sampling bucket contains the time.
data_for_time(store, time) ==
  IF store.data = <<>> THEN 0
  ELSE getFloorIndex(store.time_sampling, time, Len(store.data)) + 1

\* CachedData after clear().
EmptyCachedData ==
  [vertices |-> DataStore(DefaultTimeSampling),
   triangles |-> DataStore(DefaultTimeSampling),
   triangles_loops |-> DataStore(DefaultTimeSampling),
   transforms |-> DataStore(DefaultTimeSampling),
   curve_keys |-> DataStore(DefaultTimeSampling),
   curve_radius |-> DataStore(DefaultTimeSampling),
   curve_first_key |-> DataStore(DefaultTimeSampling),
   curve_shader |-> DataStore(DefaultTimeSampling),
   attributes |-> <<>>]

Channels == {"vertices", "triangles", "triangles_loops", "transforms",
             "curve_keys", "curve_radius", "curve_first_key", "curve_shader"}

\* The channels the per-sample loops fill.
SampleChannels == Channels \ {"transforms"}

\* Number of samples of the channel holding most samples.
num_samples(cached_data) ==
  SetMax({Len(cached_data[c].data) : c \in Channels})

\* CachedData::is_constant(): the animated-sample count is exactly one.
is_constant(cached_data) == num_samples(cached_data) = 1

\* ---------------------------------------------------------- cache builder
\* static void add_positions(positions, time, cached_data)
add_positions(positions, time, cached_data) ==
  [cached_data EXCEPT !.vertices =
     add_data(@, [i \in 1..Len(positions) |-> make_float3_from_yup(positions[i])], time)]

RECURSIVE fan_triangles_short(_, _, _, _)
\* Mutation: the inner loop stops one triangle early (j < face_counts[i] - 3).
fan_triangles_short(face_counts, face_indices, i, index_offset) ==
  IF i > Len(face_counts) THEN <<>>
  ELSE [k \in 1..Max2(0, face_counts[i] - 3) |->
          LET j == k - 1
          IN [tri |-> <<face_indices[index_offset + 1],
                        face_indices[index_offset + j + 2],
                        face_indices[index_offset + j + 3]>>,
              loop |-> <<index_offset, index_offset + j + 1, index_offset + j + 2>>]]
       \o fan_triangles_short(face_counts, face_indices, i + 1,
                              index_offset + face_counts[i])

RECURSIVE fan_triangles(_, _, _, _)
\* The nested loops of add_triangles from face i on: the pairs
\* <<triangle, triangle loop>> in emission order.
fan_triangles(face_counts, face_indices, i, index_offset) ==
  IF i > Len(face_counts) THEN <<>>
  ELSE [k \in 1..Max2(0, face_counts[i] - 2) |->
          LET j == k - 1
          IN [tri |-> <<face_indices[index_offset + 1],
                        face_indices[index_offset + j + 2],
                        face_indices[index_offset + j + 3]>>,
              loop |-> <<index_offset, index_offset + j + 1, index_offset + j + 2>>]]
       \o fan_triangles(face_counts, face_indices, i + 1, index_offset + face_counts[i])

\* Mutation: the loop indices are recorded in increasing order of the vertex
\* index they refer to, not in the order of the triangle's corners.
add_triangles_sorted_loops(face_counts, face_indices, time, cached_data) ==
  LET fan == fan_triangles(face_counts, face_indices, 1, 0)
      triangles == [k \in 1..Len(fan) |-> fan[k].tri]
      triangles_loops ==
        [k \in 1..Len(fan) |->
           IF fan[k].tri[2] > fan[k].tri[3]
           THEN <<fan[k].loop[1], fan[k].loop[3], fan[k].loop[2]>>
           ELSE fan[k].loop]
  IN [cached_data EXCEPT !.triangles = add_data(@, triangles, time),
                         !.triangles_loops = add_data(@, triangles_loops, time)]

\* static void add_triangles(face_counts, face_indices, time, cached_data)
add_triangles(face_counts, face_indices, time, cached_data) ==
  LET fan == fan_triangles(face_counts, face_indices, 1, 0)
      triangles == [k \in 1..Len(fan) |-> fan[k].tri]
      triangles_loops == [k \in 1..Len(fan) |-> fan[k].loop]
  IN [cached_data EXCEPT !.triangles = add_data(@, triangles, time),
                         !.triangles_loops = add_data(@, triangles_loops, time)]

\* The placeholder radius 0.01f given to every curve key.
CurveRadius == "0.01f"

RECURSIVE curve_arrays_end_offset(_, _, _, _)
\* Mutation: the offset is advanced before the first key of the curve is
\* recorded.
curve_arrays_end_offset(curves_num_vertices, position, i, offset) ==
  IF i > Len(curves_num_vertices)
  THEN [keys |-> <<>>, radius |-> <<>>, first_key |-> <<>>, shader |-> <<>>]
  ELSE LET num_vertices == curves_num_vertices[i]
           rest == curve_arrays_end_offset(curves_num_vertices, position, i + 1,
                                           offset + num_vertices)
       IN [keys |-> [j \in 1..num_vertices |-> make_float3_from_yup(position[offset + j])]
                    \o rest.keys,
           radius |-> [j \in 1..num_vertices |-> CurveRadius] \o rest.radius,
           first_key |-> <<offset + num_vertices>> \o rest.first_key,
           shader |-> <<0>> \o rest.shader]

RECURSIVE curve_arrays(_, _, _, _)
\* The loop over the curves of one ICurvesSchema sample, from curve i on.
curve_arrays(curves_num_vertices, position, i, offset) ==
  IF i > Len(curves_num_vertices)
  THEN [keys |-> <<>>, radius |-> <<>>, first_key |-> <<>>, shader |-> <<>>]
  ELSE LET num_vertices == curves_num_vertices[i]
           rest == curve_arrays(curves_num_vertices, position, i + 1, offset + num_vertices)
       IN [keys |-> [j \in 1..num_vertices |-> make_float3_from_yup(position[offset + j])]
                    \o rest.keys,
           radius |-> [j \in 1..num_vertices |-> CurveRadius] \o rest.radius,
           first_key |-> <<offset>> \o rest.first_key,
           shader |-> <<0>> \o rest.shader]

\* One iteration of the sample loop of load_all_data(ICurvesSchema).
add_curves(sample, time, cached_data) ==
  LET a == curve_arrays(sample.curves_num_vertices, sample.positions, 1, 0)
  IN [cached_data EXCEPT !.curve_keys = add_data(@, a.keys, time),
                         !.curve_radius = add_data(@, a.radius, time),
                         !.curve_first_key = add_data(@, a.first_key, time),
                         !.curve_shader = add_data(@, a.shader, time)]

\* One iteration of the sample loop of load_all_data(IPolyMeshSchema).
add_mesh(sample, time, cached_data) ==
  add_triangles(sample.face_counts, sample.face_indices, time,
                add_positions(sample.positions, time, cached_data))

\* A CachedAttribute created by CachedData::add_attribute.
NewCachedAttribute(name) ==
  [name |-> name, std |-> "ATTR_STD_NONE", element |-> "ATTR_ELEMENT_NONE",
   type_desc |-> "TypeUnknown", data |-> DataStore(DefaultTimeSampling)]

\* The position of the attribute of a name in the cache, 0 when absent.
attribute_index(attributes, name) ==
  IF \E k \in 1..Len(attributes) : attributes[k].name = name
  THEN SetMin({k \in 1..Len(attributes) : attributes[k].name = name})
  ELSE 0

\* CachedData::add_attribute(name): the attribute of that name, created on
\* its first reference.
add_attribute(attributes, name) ==
  IF attribute_index(attributes, name) # 0 THEN attributes
  ELSE Append(attributes, NewCachedAttribute(name))

\* The float2 buffer filled over the triangle loops: three values per
\* triangle, looked up through the parameter's indices.
corner_data_float2(triangles_loops, values, indices) ==
  [k \in 1..(3 * Len(triangles_loops)) |->
     LET loop == triangles_loops[((k - 1) \div 3) + 1]
         v == indices[loop[((k - 1) % 3) + 1] + 1]
     IN <<values[v + 1][1], values[v + 1][2]>>]

\* color_float_to_byte(make_float3(v.x, v.y, v.z)), for components 0 and 1.
color_float_to_byte(v) == <<255 * v[1], 255 * v[2], 255 * v[3], 255>>

\* color_float4_to_uchar4(make_float4(v.r, v.g, v.b, v.a))
color_float4_to_uchar4(v) == <<255 * v[1], 255 * v[2], 255 * v[3], 255 * v[4]>>

\* The uchar4 buffer filled over the triangles: three values per triangle,
\* looked up by the triangle's vertex indices and converted as the value
\* type (C3f or C4f) requires.
corner_data_uchar4(triangles, values, type) ==
  [k \in 1..(3 * Len(triangles)) |->
     LET v == values[triangles[((k - 1) \div 3) + 1][((k - 1) % 3) + 1] + 1]
     IN IF type = "C3f" THEN color_float_to_byte(v) ELSE color_float4_to_uchar4(v)]

\* The body of the property loop of read_attribute for a property of the
\* requested name: the attribute afterwards.
read_property(cached_data, attribute, param, index) ==
  LET time == getSampleTime(param.ts, index)
      sample == param.samples[index + 1]
      ti == data_for_time(cached_data.triangles, time)
      li == data_for_time(cached_data.triangles_loops, time)
      store(data) == add_data(set_time_sampling(attribute.data, param.ts), data, time)
  IN IF param.type = "V2f_uv"
     THEN IF param.scope = "kFacevaryingScope"
          THEN LET a == [attribute EXCEPT !.std = "ATTR_STD_NONE",
                                          !.element = "ATTR_ELEMENT_CORNER",
                                          !.type_desc = "TypeFloat2"]
               IN IF ti = 0 \/ li = 0 THEN a
                  ELSE [a EXCEPT !.data =
                          store(corner_data_float2(cached_data.triangles_loops.data[li].data,
                                                   sample.vals, sample.indices))]
          ELSE attribute
     ELSE IF param.type \in {"C3f", "C4f"}
     THEN IF param.scope = "kVaryingScope"
          THEN LET a == [attribute EXCEPT !.std = "ATTR_STD_NONE",
                                          !.element = "ATTR_ELEMENT_CORNER_BYTE",
                                          !.type_desc = "TypeRGBA"]
               IN IF ti = 0 THEN a
                  ELSE [a EXCEPT !.data =
                          store(corner_data_uchar4(cached_data.triangles.data[ti].data,
                                                   sample.vals, param.type))]
          ELSE [attribute EXCEPT !.std = "ATTR_STD_NONE"]
     ELSE attribute

RECURSIVE read_properties(_, _, _, _, _, _)
\* The property loop of read_attribute from property i on.
read_properties(cached_data, attribute, arb_geom_params, i, index, attr_name) ==
  IF i > Len(arb_geom_params) THEN attribute
  ELSE read_properties(cached_data,
                       IF arb_geom_params[i].name # attr_name THEN attribute
                       ELSE read_property(cached_data, attribute, arb_geom_params[i], index),
                       arb_geom_params, i + 1, index, attr_name)

\* void AlembicObject::read_attribute(arb_geom_params, iss, attr_name)
read_attribute(cached_data, arb_geom_params, index, attr_name) ==
  LET attributes == add_attribute(cached_data.attributes, attr_name)
      k == attribute_index(attributes, attr_name)
  IN [cached_data EXCEPT !.attributes =
        [attributes EXCEPT ![k] =
           read_properties(cached_data, attributes[k], arb_geom_params, 1, index, attr_name)]]

RECURSIVE read_attributes(_, _, _, _, _)
\* foreach (attr, requested_attributes.requests) read_attribute(...)
read_attributes(cached_data, arb_geom_params, index, requests, j) ==
  IF j > Len(requests) THEN cached_data
  ELSE read_attributes(read_attribute(cached_data, arb_geom_params, index, requests[j]),
                       arb_geom_params, index, requests, j + 1)

RECURSIVE read_uv_samples(_, _, _, _)
\* The sample loop of read_default_uvs from sample i on: the attribute
\* afterwards.
read_uv_samples(uvs, cached_data, attr, i) ==
  IF i >= Len(uvs.samples) THEN attr
  ELSE LET time == getSampleTime(uvs.ts, i)
           ti == data_for_time(cached_data.triangles, time)
           li == data_for_time(cached_data.triangles_loops, time)
           sample == uvs.samples[i + 1]
       IN read_uv_samples(uvs, cached_data,
            IF uvs.scope # "kFacevaryingScope" \/ ti = 0 \/ li = 0 THEN attr
            ELSE [attr EXCEPT
                    !.std = "ATTR_STD_UV",
                    !.data = add_data(@, corner_data_float2(
                                           cached_data.triangles_loops.data[li].data,
                                           sample.vals, sample.indices), time)],
            i + 1)

\* static void read_default_uvs(const IV2fGeomParam &uvs, CachedData &cached_data)
read_default_uvs(uvs, cached_data) ==
  LET attributes == add_attribute(cached_data.attributes, uvs.name)
      k == attribute_index(attributes, uvs.name)
  IN [cached_data EXCEPT !.attributes =
        [attributes EXCEPT ![k] = read_uv_samples(uvs, cached_data, attributes[k], 0)]]

\* The comparison matrix of setup_transform_cache:
\*   M44d first_matrix = xform_samples.begin()->first;
\* begin()->first is the smallest key (a chrono_t), converted by M44d(T a).
first_matrix(xform_samples) == M44d_fill(SetMin(DOMAIN xform_samples))

\* Mutation: without transform samples no transform is stored.
setup_transform_cache_no_default(xform_samples, cached_data) ==
  LET keys == SortedSeq(DOMAIN xform_samples)
  IN [cached_data EXCEPT !.transforms =
        set_time_sampling(
          [cached_data.transforms EXCEPT !.data =
             @ \o [k \in 1..Len(keys) |->
                     [time |-> keys[k], data |-> make_transform(xform_samples[keys[k]])]]],
          cached_data.vertices.time_sampling)]

\* void AlembicObject::setup_transform_cache()
setup_transform_cache(xform_samples, cached_data) ==
  LET keys == SortedSeq(DOMAIN xform_samples)
      has_animation ==
        \E t \in DOMAIN xform_samples : xform_samples[t] # first_matrix(xform_samples)
      filled ==
        IF DOMAIN xform_samples = {}
        THEN add_data(cached_data.transforms, transform_identity, 0)
        ELSE IF ~has_animation
        THEN add_data(cached_data.transforms,
                      make_transform(first_matrix(xform_samples)), 0)
        ELSE [cached_data.transforms EXCEPT !.data =
                @ \o [k \in 1..Len(keys) |->
                        [time |-> keys[k],
                         data |-> make_transform(xform_samples[keys[k]])]]]
  IN [cached_data EXCEPT !.transforms =
        set_time_sampling(filled, cached_data.vertices.time_sampling)]

\* -------------------------------------------------------------------- state
\* The declared logical objects (the "objects" socket), in order.
ObjectPaths == << <<"xz", "mesh">>, <<"xa", "mesh">>, <<"xc", "curves">>, <<"xn", "mesh">>,
                 <<"xa", "xb", "curves">> >>
NumObjects == Len(ObjectPaths)

\* shader->attributes.requests of the shaders each declared object uses, by
\* name; the empty name is a request by standard only.
ShaderRequests ==
  << <<>>, <<"Cd", "", "Cv", "st", "absent", "N2", "Cu", "sv">>, <<>>, <<"Cd">>, <<>> >>

\* The standard attributes the shaders of each declared object need.
ShaderStandards == << {}, {"ATTR_STD_GENERATED"}, {}, {}, {"ATTR_STD_GENERATED"} >>

\* AttributeRequestSet AlembicObject::get_requested_attributes()
get_requested_attributes(o) ==
  SelectSeq(ShaderRequests[o], LAMBDA name : name # "")

\* geometry->need_attribute(scene, std)
need_attribute(o, std) == std \in ShaderStandards[o]

\* The frame numbers the host sets.
Frames == {1, 12, 24}

VARIABLES
  filepath,        \* AlembicProcedural::filepath
  frame,           \* AlembicProcedural::frame
  frame_rate,      \* AlembicProcedural::frame_rate
  modified,        \* Node::is_modified() of the procedural
  archive,         \* AlembicProcedural::archive
  objects_loaded,  \* AlembicProcedural::objects_loaded
  objects,         \* AlembicProcedural::objects, the AlembicObject wrappers
  scene,           \* the renderer objects created by scene->create_node
  cancel,          \* Progress::get_cancel()
  pc,              \* position of generate
  walk_stack,      \* pending walk_hierarchy calls, innermost first
  obj_i,           \* index of the object the loop of generate is at
  load_i,          \* sample index of the loop of load_all_data
  ret,             \* how the last generate call returned (observation)
  hist,            \* observation counters, not program state
  helper           \* a direct call of one of the static helper functions

vars == <<filepath, frame, frame_rate, modified, archive, objects_loaded, objects,
          scene, cancel, pc, walk_stack, obj_i, load_i, ret, hist, helper>>

\* AlembicObject after construction and set_path.
NewObject(path) ==
  [path |-> path, iobject |-> NoObject, xform_samples |-> EmptySampleMap,
   data_loaded |-> FALSE, object |-> 0, cached_data |-> EmptyCachedData]

\* No helper function is being called directly.
NoCall == [fn |-> "none", args |-> <<>>, done |-> TRUE, result |-> <<>>]

\* AlembicProcedural::AlembicProcedural(), a fresh node counts as modified.
Constructed ==
  /\ filepath = EmptyPath
  /\ frame = DefaultFrame
  /\ frame_rate = DefaultFrameRate
  /\ modified = TRUE
  /\ archive = NoArchive
  /\ objects_loaded = FALSE
  /\ objects = [o \in 1..NumObjects |-> NewObject(ObjectPaths[o])]
  /\ scene = <<>>
  /\ cancel = FALSE
  /\ pc = "idle"
  /\ walk_stack = <<>>
  /\ obj_i = 0
  /\ load_i = 0
  /\ ret = "none"
  /\ hist = [opens |-> 0, walks |-> 0, open_failed |-> FALSE,
             routine |-> [o \in 1..NumObjects |-> "none"],
             cached |-> [o \in 1..NumObjects |-> FALSE],
             interrupted |-> 0]

Init == Constructed /\ helper = NoCall

\* Abc::chrono_t frame_time = (Abc::chrono_t)(frame / frame_rate), in ticks.
frame_time == (frame * 24) \div frame_rate

\* ------------------------------------------------------------ host actions
\* set_filepath(value): the socket setter marks the node modified when the
\* value changes.
set_filepath(value) ==
  /\ pc = "idle"
  /\ value # filepath
  /\ filepath' = value
  /\ modified' = TRUE
  /\ hist' = [hist EXCEPT !.open_failed = FALSE]
  /\ UNCHANGED <<frame, frame_rate, archive, objects_loaded, objects, scene, cancel,
                 pc, walk_stack, obj_i, load_i, ret>>
  /\ UNCHANGED helper

\* set_frame(value)
set_frame(value) ==
  /\ pc = "idle"
  /\ value # frame
  /\ frame' = value
  /\ modified' = TRUE
  /\ UNCHANGED <<filepath, frame_rate, archive, objects_loaded, objects, scene, cancel,
                 pc, walk_stack, obj_i, load_i, ret, hist>>
  /\ UNCHANGED helper

\* Progress::set_cancel, from the user at any moment.
set_cancel ==
  /\ ~cancel
  /\ cancel' = TRUE
  /\ UNCHANGED <<filepath, frame, frame_rate, modified, archive, objects_loaded,
                 objects, scene, pc, walk_stack, obj_i, load_i, ret, hist>>
  /\ UNCHANGED helper

\* Progress::reset, between two updates.
reset_cancel ==
  /\ pc = "idle"
  /\ cancel
  /\ cancel' = FALSE
  /\ UNCHANGED <<filepath, frame, frame_rate, modified, archive, objects_loaded,
                 objects, scene, pc, walk_stack, obj_i, load_i, ret, hist>>
  /\ UNCHANGED helper

\* The scene's device update between two generate calls: the geometry is
\* synchronized and its modification flags are cleared.
device_update ==
  /\ pc = "idle"
  /\ \E k \in DOMAIN scene : scene[k].socket_modified # {}
  /\ scene' = [k \in DOMAIN scene |-> [scene[k] EXCEPT !.socket_modified = {}]]
  /\ UNCHANGED <<filepath, frame, frame_rate, modified, archive, objects_loaded,
                 objects, cancel, pc, walk_stack, obj_i, load_i, ret, hist>>
  /\ UNCHANGED helper

\* The procedural manager calls generate(scene, progress).
call_generate ==
  /\ pc = "idle"
  /\ pc' = "entry"
  /\ UNCHANGED <<filepath, frame, frame_rate, modified, archive, objects_loaded,
                 objects, scene, cancel, walk_stack, obj_i, load_i, ret, hist>>
  /\ UNCHANGED helper

\* ---------------------------------------------------------- materialization
\* scene->create_node<Mesh/Hair>() and scene->create_node<Object>(); the
\* field wrapper records which AlembicObject asked for the nodes.
NewSceneObject(o, geometry, name) ==
  [wrapper |-> o, geometry |-> geometry, name |-> name, tfm |-> transform_identity,
   verts |-> <<>>, triangles |-> <<>>, smooth |-> <<>>, shader |-> <<>>,
   curve_keys |-> <<>>, curve_radius |-> <<>>, curve_first_key |-> <<>>,
   curve_shader |-> <<>>, attributes |-> <<>>, socket_modified |-> {},
   tag |-> "none"]

\* Mutation: the nodes are created in every materialization.
needs_object_always(w) == TRUE

\* if (!abc_object->get_object())
needs_object(w) == w.object = 0

\* The head of read_mesh / read_curves: create the geometry and the object
\* "if not already done".
create_nodes(st, o, geometry, name) ==
  IF needs_object(st.objects[o])
  THEN [objects |-> [st.objects EXCEPT ![o].object = Len(st.scene) + 1],
        scene |-> Append(st.scene, NewSceneObject(o, geometry, name))]
  ELSE st

\* The sample of a channel for a time, or the value the socket already has.
slice(store, time, old) ==
  IF data_for_time(store, time) = 0 THEN old
  ELSE store.data[data_for_time(store, time)].data

\* mesh->set_triangles(triangles): the index triples flattened.
flatten(triangle_data) ==
  [k \in 1..(3 * Len(triangle_data)) |-> triangle_data[((k - 1) \div 3) + 1][((k - 1) % 3) + 1]]

\* Node::set(socket, value) of the geometry: the socket takes the value and is
\* flagged as modified when the value differs from the one it has.
set_socket(so, socket, value) ==
  IF so[socket] = value THEN so
  ELSE [so EXCEPT ![socket] = value, !.socket_modified = @ \cup {socket}]

\* set_socket when the cache has a sample of the channel for the time.
set_slice(so, socket, store, time) ==
  IF data_for_time(store, time) = 0 THEN so
  ELSE set_socket(so, socket, store.data[data_for_time(store, time)].data)

\* AttributeSet::add: the attribute of that name, created when missing, with
\* the buffer copied in.
attributes_add(attributes, attr) ==
  IF attribute_index(attributes, attr.name) # 0
  THEN [attributes EXCEPT ![attribute_index(attributes, attr.name)] = attr]
  ELSE Append(attributes, attr)

\* AttributeSet::remove(std)
attributes_remove(attributes, std) ==
  SelectSeq(attributes, LAMBDA attr : attr.std # std)

RECURSIVE push_attributes_all(_, _, _, _)
\* Mutation: an attribute without a sample for the time is added to the
\* geometry with an empty buffer.
push_attributes_all(attributes, cached, k, time) ==
  IF k > Len(cached) THEN attributes
  ELSE LET attribute == cached[k]
           idx == data_for_time(attribute.data, time)
       IN push_attributes_all(
            attributes_add(attributes,
              [name |-> attribute.name, std |-> attribute.std,
               type_desc |-> attribute.type_desc, element |-> attribute.element,
               data |-> IF idx = 0 THEN <<>> ELSE attribute.data.data[idx].data]),
            cached, k + 1, time)

RECURSIVE push_attributes(_, _, _, _)
\* for (auto &attribute : cached_data.attributes): the attributes with a
\* sample for the time are added to the geometry, by standard or by (name,
\* type, element).
push_attributes(attributes, cached, k, time) ==
  IF k > Len(cached) THEN attributes
  ELSE LET attribute == cached[k]
           idx == data_for_time(attribute.data, time)
       IN push_attributes(
            IF idx = 0 THEN attributes
            ELSE attributes_add(attributes,
                   IF attribute.std # "ATTR_STD_NONE"
                   THEN [name |-> attribute.name, std |-> attribute.std,
                         type_desc |-> "standard", element |-> "standard",
                         data |-> attribute.data.data[idx].data]
                   ELSE [name |-> attribute.name, std |-> "ATTR_STD_NONE",
                         type_desc |-> attribute.type_desc, element |-> attribute.element,
                         data |-> attribute.data.data[idx].data]),
            cached, k + 1, time)

\* attributes.add(ATTR_STD_GENERATED) filled with the given coordinates.
add_generated(o, so, coordinates) ==
  IF need_attribute(o, "ATTR_STD_GENERATED")
  THEN [so EXCEPT !.attributes =
          attributes_add(@, [name |-> "generated", std |-> "ATTR_STD_GENERATED",
                             type_desc |-> "standard", element |-> "standard",
                             data |-> coordinates])]
  ELSE so

\* geometry->tag_update(scene, rebuild), recorded on the object.
tag_update(so, rebuild) == [so EXCEPT !.tag = IF rebuild THEN "rebuild" ELSE "update"]

\* The tail of read_mesh: push the cache slice of the frame time into the mesh.
push_mesh(st, o, time) ==
  LET w == st.objects[o]
      cd == w.cached_data
      so0 == [st.scene[w.object] EXCEPT !.tag = "none"]
      so1 == [so0 EXCEPT !.tfm = slice(cd.transforms, time, so0.tfm)]
      so2 == set_slice(so1, "verts", cd.vertices, time)
      has_tris == data_for_time(cd.triangles, time) # 0
      tris == slice(cd.triangles, time, <<>>)
      so3 == IF has_tris
             THEN set_socket(set_socket(set_socket(so2, "triangles", flatten(tris)),
                                        "smooth", [k \in 1..Len(tris) |-> 1]),
                             "shader", [k \in 1..Len(tris) |-> 0])
             ELSE so2
      so4 == [so3 EXCEPT !.attributes =
                attributes_remove(
                  attributes_remove(push_attributes(@, cd.attributes, 1, time),
                                    "ATTR_STD_FACE_NORMAL"),
                  "ATTR_STD_VERTEX_NORMAL")]
      so5 == add_generated(o, so4, so4.verts)
      so6 == IF so5.socket_modified # {}
             THEN tag_update(so5, "triangles" \in so5.socket_modified)
             ELSE so5
  IN [st EXCEPT !.scene[w.object] = so6]

\* The tail of read_curves: push the cache slice of the frame time into the hair.
push_curves(st, o, time) ==
  LET w == st.objects[o]
      cd == w.cached_data
      so0 == [st.scene[w.object] EXCEPT !.tag = "none"]
      so1 == [so0 EXCEPT !.tfm = slice(cd.transforms, time, so0.tfm)]
      so2 == set_slice(so1, "curve_keys", cd.curve_keys, time)
      so3 == set_slice(so2, "curve_radius", cd.curve_radius, time)
      so4 == set_slice(so3, "curve_first_key", cd.curve_first_key, time)
      so5 == set_slice(so4, "curve_shader", cd.curve_shader, time)
      so6 == [so5 EXCEPT !.attributes = push_attributes(@, cd.attributes, 1, time)]
      so7 == add_generated(o, so6,
               [i \in 1..Len(so6.curve_first_key) |->
                  so6.curve_keys[so6.curve_first_key[i] + 1]])
  IN [st EXCEPT !.scene[w.object] =
        tag_update(so7, {"curve_keys", "curve_radius"} \cap so7.socket_modified # {})]

push(st, o, kind, time) ==
  IF kind = "PolyMesh" THEN push_mesh(st, o, time) ELSE push_curves(st, o, time)

\* Mutation: the cache is not cleared before it is filled.
begin_load_keep(cached_data, kind, ts) ==
  IF kind = "PolyMesh"
  THEN [cached_data EXCEPT !.vertices = set_time_sampling(@, ts),
                           !.triangles = set_time_sampling(@, ts),
                           !.triangles_loops = set_time_sampling(@, ts)]
  ELSE [cached_data EXCEPT !.curve_keys = set_time_sampling(@, ts),
                           !.curve_radius = set_time_sampling(@, ts),
                           !.curve_first_key = set_time_sampling(@, ts),
                           !.curve_shader = set_time_sampling(@, ts)]

\* cached_data.clear() and the set_time_sampling calls at the head of
\* load_all_data.
begin_load(cached_data, kind, ts) ==
  IF kind = "PolyMesh"
  THEN [EmptyCachedData EXCEPT !.vertices = set_time_sampling(@, ts),
                               !.triangles = set_time_sampling(@, ts),
                               !.triangles_loops = set_time_sampling(@, ts)]
  ELSE [EmptyCachedData EXCEPT !.curve_keys = set_time_sampling(@, ts),
                               !.curve_radius = set_time_sampling(@, ts),
                               !.curve_first_key = set_time_sampling(@, ts),
                               !.curve_shader = set_time_sampling(@, ts)]

\* setup_transform_cache(); data_loaded = true;
finish_load(w) ==
  [w EXCEPT !.cached_data = setup_transform_cache(w.xform_samples, w.cached_data),
            !.data_loaded = TRUE]

\* ----------------------------------------------------------------- generate
\* Mutation: the early return on an unmodified procedural is missing.
short_circuit_never == FALSE

\* if (!is_modified()) return;
short_circuit == ~modified

\* if (!archive.valid())
needs_open == archive = NoArchive

\* Mutation: the hierarchy is walked in every invocation.
needs_walk_always == TRUE

\* if (!objects_loaded)
needs_walk == ~objects_loaded

\* Mutation: every loaded object is skipped, constant or not.
skip_loaded(w) == w.data_loaded

\* if (object->has_data_loaded() && object->is_constant()) continue;
skip_constant(w) == w.data_loaded /\ is_constant(w.cached_data)

\* Mutation: the cache is reloaded in every materialization.
needs_load_always(w) == TRUE

\* if (!abc_object->has_data_loaded())
needs_load(w) == ~w.data_loaded

\* Mutation: the sample loops do not poll the cancellation flag.
load_cancelled_never == FALSE

\* if (progress.get_cancel()) return;   in the sample loops of load_all_data
load_cancelled == cancel

\* Mutation: wrappers are looked up by the node name instead of the full path.
object_map_find_by_name(full_name) ==
  LET last(p) == p[Len(p)]
  IN IF \E o \in 1..NumObjects : last(objects[o].path) = last(full_name)
     THEN SetMin({o \in 1..NumObjects : last(objects[o].path) = last(full_name)})
     ELSE 0

\* object_map.find(full_name): load_objects inserts the objects in order and
\* unordered_map::insert keeps the first entry of a key.  0 stands for end().
object_map_find(full_name) ==
  IF \E o \in 1..NumObjects : objects[o].path = full_name
  THEN SetMin({o \in 1..NumObjects : objects[o].path = full_name})
  ELSE 0

\* The foreach loop of generate moves on to the next object, or ends with
\* clear_modified().
advance ==
  IF obj_i >= NumObjects
  THEN pc' = "idle" /\ obj_i' = 0 /\ modified' = FALSE /\ ret' = "done"
  ELSE pc' = "objects" /\ obj_i' = obj_i + 1 /\ UNCHANGED <<modified, ret>>

\* Entry into the foreach loop of generate.
enter_objects ==
  IF NumObjects = 0
  THEN pc' = "idle" /\ obj_i' = 0 /\ modified' = FALSE /\ ret' = "done"
  ELSE pc' = "objects" /\ obj_i' = 1 /\ UNCHANGED <<modified, ret>>

\* The walk_hierarchy calls of the loop over the children of node p.
child_calls(arch, p, xs) ==
  [k \in 1..Len(Children(arch, p)) |-> [node |-> Children(arch, p)[k], xs |-> xs]]

\* generate from its entry to the first poll of the cancellation flag.
generate_entry ==
  /\ pc = "entry"
  /\ IF short_circuit
     THEN /\ pc' = "idle"
          /\ ret' = "unmodified"
          /\ UNCHANGED <<filepath, modified, archive, objects_loaded, walk_stack,
                         obj_i, hist>>
     ELSE IF needs_open /\ getArchive(filepath) = NoArchive
     THEN \* the archive cannot be opened
          /\ filepath' = EmptyPath
          /\ modified' = FALSE
          /\ pc' = "idle"
          /\ ret' = "open_failed"
          /\ hist' = [hist EXCEPT !.opens = 1 - @, !.open_failed = TRUE]
          /\ UNCHANGED <<archive, objects_loaded, walk_stack, obj_i>>
     ELSE LET a == IF needs_open THEN getArchive(filepath) ELSE archive
              calls == child_calls(a, 0, NullSamples)
          IN /\ archive' = a
             /\ UNCHANGED filepath
             /\ IF needs_walk
                THEN \* load_objects(progress)
                     /\ hist' = [hist EXCEPT !.opens = IF needs_open THEN 1 - @ ELSE @,
                                             !.walks = Bump(@)]
                     /\ walk_stack' = calls
                     /\ IF calls = <<>>
                        THEN objects_loaded' = TRUE /\ enter_objects
                        ELSE /\ pc' = "walk"
                             /\ UNCHANGED <<objects_loaded, obj_i, modified, ret>>
                ELSE /\ hist' = [hist EXCEPT !.opens = IF needs_open THEN 1 - @ ELSE @]
                     /\ enter_objects
                     /\ UNCHANGED <<objects_loaded, walk_stack>>
  /\ UNCHANGED <<frame, frame_rate, objects, scene, cancel, load_i>>
  /\ UNCHANGED helper

\* The samples of an IXformSchema as a map: sample_time -> sample.getMatrix().
local_xform_samples(node) ==
  [t \in {getSampleTime(node.ts, i - 1) : i \in 1..Len(node.xforms)} |->
     node.xforms[CHOOSE i \in 1..Len(node.xforms) : getSampleTime(node.ts, i - 1) = t]]

\* Mutation: the samples of the node replace the set in scope.
xform_branch_local_only(node, xs) ==
  IF node.num_ops > 0 THEN PtrSamples(local_xform_samples(node)) ELSE xs

\* The xform_samples pointer after the IXform branch of walk_hierarchy.
xform_branch(node, xs) ==
  IF node.num_ops > 0
  THEN IF xs.null
       THEN PtrSamples(local_xform_samples(node))
       ELSE PtrSamples(concatenate_xform_samples(xs.map, local_xform_samples(node)))
  ELSE xs

\* Whether next_object is valid after the dispatch on the node kind.
descends(kind) == kind \notin {"SubD", "FaceSet"}

\* Mutation: the wrapper is given the archive node but not the samples.
bind_object_no_samples(objs, n, xs) ==
  LET o == object_map_find(getFullName(archive, n))
  IN IF o = 0 THEN objs ELSE [objs EXCEPT ![o].iobject = n]

\* The IPolyMesh / ICurves branch of walk_hierarchy on the wrappers.
bind_object(objs, n, xs) ==
  LET o == object_map_find(getFullName(archive, n))
  IN IF o = 0 THEN objs
     ELSE [objs EXCEPT ![o].iobject = n,
                       ![o].xform_samples = IF xs.null THEN @ ELSE xs.map]

\* Mutation: walk_hierarchy does not poll the cancellation flag.
walk_cancelled_never == FALSE

\* if (progress.get_cancel()) return;   at the head of walk_hierarchy
walk_cancelled == cancel

\* One call of walk_hierarchy, up to its calls for the children.
walk_step ==
  /\ pc = "walk"
  /\ walk_stack # <<>>
  /\ LET call == Head(walk_stack)
         node == Tree(archive)[call.node]
         xs == IF node.kind = "Xform" THEN xform_branch(node, call.xs) ELSE call.xs
         stack == IF walk_cancelled THEN Tail(walk_stack)
                  ELSE IF descends(node.kind)
                  THEN child_calls(archive, call.node, xs) \o Tail(walk_stack)
                  ELSE Tail(walk_stack)
     IN /\ walk_stack' = stack
        /\ objects' = IF ~walk_cancelled /\ node.kind \in {"PolyMesh", "Curves"}
                      THEN bind_object(objects, call.node, xs)
                      ELSE objects
        /\ IF stack = <<>>
           THEN objects_loaded' = TRUE /\ enter_objects
           ELSE UNCHANGED <<objects_loaded, pc, obj_i, modified, ret>>
  /\ UNCHANGED <<filepath, frame, frame_rate, archive, scene, cancel, load_i, hist>>
  /\ UNCHANGED helper

\* The geometry node read_mesh / read_curves creates.
geometry_of(kind) == IF kind = "PolyMesh" THEN "Mesh" ELSE "Hair"

\* The name of the routine generate dispatches an archive node kind to.
routine_of(kind) ==
  IF kind = "PolyMesh" THEN "read_mesh"
  ELSE IF kind = "Curves" THEN "read_curves" ELSE "none"

\* The rest of read_mesh / read_curves once load_all_data has returned (or was
\* not called), and the step of the loop of generate to the next object.
materialize(st, o, kind) ==
  LET st1 == push(st, o, kind, frame_time)
  IN /\ objects' = st1.objects
     /\ scene' = st1.scene
     /\ load_i' = 0
     /\ advance

\* The sample loop of load_all_data is at its head with index i.
enter_loop(st, o, kind, i, n) ==
  IF i < n
  THEN /\ pc' = "load"
       /\ load_i' = i
       /\ objects' = st.objects
       /\ scene' = st.scene
       /\ UNCHANGED <<obj_i, modified, ret>>
  ELSE IF kind = "PolyMesh"
  THEN /\ pc' = "post_loop"
       /\ load_i' = i
       /\ objects' = st.objects
       /\ scene' = st.scene
       /\ UNCHANGED <<obj_i, modified, ret>>
  ELSE materialize([st EXCEPT !.objects[o] = finish_load(@)], o, kind)

\* Mutation: the object loop of generate does not poll the cancellation flag.
loop_cancelled_never == FALSE

\* if (progress.get_cancel()) return;   at the head of the loop of generate
loop_cancelled == cancel

\* One iteration of the foreach loop of generate, up to the first poll inside
\* load_all_data.
object_step ==
  /\ pc = "objects"
  /\ LET o == obj_i
         w == objects[o]
         kind == header_kind(archive, w.iobject)
         st0 == [objects |-> objects, scene |-> scene]
     IN IF loop_cancelled
        THEN /\ pc' = "idle"
             /\ obj_i' = 0
             /\ ret' = "cancelled"
             /\ UNCHANGED <<modified, objects, scene, load_i, hist>>
        ELSE IF skip_constant(w)
        THEN /\ hist' = [hist EXCEPT !.routine[o] = "skipped"]
             /\ advance
             /\ UNCHANGED <<objects, scene, load_i>>
        ELSE IF kind \in {"PolyMesh", "Curves"}
        THEN LET node == Tree(archive)[w.iobject]
                 st1 == create_nodes(st0, o, geometry_of(kind), node.name)
             IN /\ hist' = [hist EXCEPT !.routine[o] = routine_of(kind),
                                        !.cached[o] = ~needs_load(st1.objects[o])]
                /\ IF needs_load(st1.objects[o])
                   THEN enter_loop([st1 EXCEPT !.objects[o].cached_data =
                                      begin_load(@, kind, node.ts)],
                                   o, kind, 0, Len(node.samples))
                   ELSE materialize(st1, o, kind)
        ELSE /\ hist' = [hist EXCEPT !.routine[o] = "none"]
             /\ advance
             /\ UNCHANGED <<objects, scene, load_i>>
  /\ UNCHANGED <<filepath, frame, frame_rate, archive, objects_loaded, cancel, walk_stack>>
  /\ UNCHANGED helper

\* One iteration of the sample loop of load_all_data (mesh or curves).
load_step ==
  /\ pc = "load"
  /\ LET o == obj_i
         w == objects[o]
         node == Tree(archive)[w.iobject]
         time == getSampleTime(node.ts, load_i)
         sample == node.samples[load_i + 1]
         st0 == [objects |-> objects, scene |-> scene]
     IN IF load_cancelled
        THEN materialize(st0, o, node.kind)
        ELSE enter_loop([st0 EXCEPT !.objects[o].cached_data =
                           IF node.kind = "PolyMesh"
                           THEN read_attributes(add_mesh(sample, time, @), node.arb,
                                                load_i, get_requested_attributes(o), 1)
                           ELSE add_curves(sample, time, @)],
                        o, node.kind, load_i + 1, Len(node.samples))
  /\ hist' = IF load_cancelled THEN [hist EXCEPT !.interrupted = obj_i] ELSE hist
  /\ UNCHANGED <<filepath, frame, frame_rate, archive, objects_loaded, cancel,
                 walk_stack>>
  /\ UNCHANGED helper

\* load_all_data(IPolyMeshSchema) after the sample loop: the poll before the
\* default UVs, and read_default_uvs.
post_loop_step ==
  /\ pc = "post_loop"
  /\ LET st0 == [objects |-> objects, scene |-> scene]
     IN IF cancel
        THEN materialize(st0, obj_i, "PolyMesh")
        ELSE LET uvs == Tree(archive)[objects[obj_i].iobject].uvs
             IN /\ pc' = "post_uvs"
                /\ objects' = IF uvs.valid
                              THEN [objects EXCEPT ![obj_i].cached_data =
                                      read_default_uvs(uvs, @)]
                              ELSE objects
                /\ UNCHANGED <<scene, obj_i, load_i, modified, ret>>
  /\ hist' = IF cancel THEN [hist EXCEPT !.interrupted = obj_i] ELSE hist
  /\ UNCHANGED <<filepath, frame, frame_rate, archive, objects_loaded, cancel,
                 walk_stack>>
  /\ UNCHANGED helper

\* load_all_data(IPolyMeshSchema): the polls after the default UVs, then
\* setup_transform_cache() and data_loaded = true.
post_uvs_step ==
  /\ pc = "post_uvs"
  /\ LET st0 == [objects |-> objects, scene |-> scene]
     IN IF cancel
        THEN materialize(st0, obj_i, "PolyMesh")
        ELSE materialize([st0 EXCEPT !.objects[obj_i] = finish_load(@)], obj_i, "PolyMesh")
  /\ hist' = IF cancel THEN [hist EXCEPT !.interrupted = obj_i] ELSE hist
  /\ UNCHANGED <<filepath, frame, frame_rate, archive, objects_loaded, cancel,
                 walk_stack>>
  /\ UNCHANGED helper

Next ==
  \/ \E value \in Paths : set_filepath(value)
  \/ \E value \in Frames : set_frame(value)
  \/ set_cancel
  \/ reset_cancel
  \/ call_generate
  \/ generate_entry
  \/ walk_step
  \/ object_step
  \/ load_step
  \/ post_loop_step
  \/ post_uvs_step

Spec == Init /\ [][Next]_vars

\* The procedural inside a host that runs the scene's device update between
\* two generate calls and never cancels.
NextUpdate ==
  \/ \E value \in Paths : set_filepath(value)
  \/ \E value \in Frames : set_frame(value)
  \/ call_generate
  \/ generate_entry
  \/ walk_step
  \/ object_step
  \/ load_step
  \/ post_loop_step
  \/ post_uvs_step
  \/ device_update

SpecUpdate == Init /\ [][NextUpdate]_vars

TypeOK ==
  /\ filepath \in Paths \cup {EmptyPath}
  /\ archive \in GoodPaths \cup {NoArchive}
  /\ pc \in {"idle", "entry", "walk", "objects", "load", "post_loop", "post_uvs"}
  /\ obj_i \in 0..NumObjects

\* ------------------------------------------- the static helpers, directly
\* The largest number of keys of a sample map handed to
\* get_interpolated_matrix_for_time directly.
MaxKeys == 3

\* Sample times (ticks) and sample matrices of the direct calls.  The scale
\* and translation components are multiples of 12 so that every blend
\* between two of them at these times is an integer.
HelperKeys == {0, 12, 24, 36}
HelperMatrices ==
  {ScaleTrans(<<12, 12, 12>>, <<0, 0, 0>>),
   ScaleTrans(<<12, 24, 12>>, <<12, 0, 24>>),
   ScaleTrans(<<24, 12, 36>>, <<0, 36, 12>>)}

\* The times asked for: before, at, between and after the keys.
HelperTimes == {-6, 0, 6, 12, 18, 24, 30, 36, 42}

\* The sample maps with at most n keys.
SampleMaps(n) ==
  UNION {[K -> HelperMatrices] : K \in {K \in SUBSET HelperKeys : Cardinality(K) <= n}}

\* A call of a helper function that has not run yet.
Call(fn, args) == [fn |-> fn, args |-> args, done |-> FALSE, result |-> <<>>]

InterpolateCalls ==
  {Call("get_interpolated_matrix_for_time", <<samples, time>>) :
     samples \in SampleMaps(MaxKeys), time \in HelperTimes}

program_vars == <<filepath, frame, frame_rate, modified, archive, objects_loaded, objects,
                  scene, cancel, pc, walk_stack, obj_i, load_i, ret, hist>>

\* The call returns.
return(result) ==
  /\ ~helper.done
  /\ helper' = [helper EXCEPT !.done = TRUE, !.result = result]
  /\ UNCHANGED program_vars

call_get_interpolated_matrix_for_time ==
  /\ helper.fn = "get_interpolated_matrix_for_time"
  /\ return(get_interpolated_matrix_for_time(helper.args[1], helper.args[2]))

\* The largest number of keys of each sample map handed to
\* concatenate_xform_samples directly.
MaxConcatKeys == 2

ConcatenateCalls ==
  {Call("concatenate_xform_samples", <<parent_samples, local_samples>>) :
     parent_samples \in SampleMaps(MaxConcatKeys), local_samples \in SampleMaps(MaxConcatKeys)}

call_concatenate_xform_samples ==
  /\ helper.fn = "concatenate_xform_samples"
  /\ return(concatenate_xform_samples(helper.args[1], helper.args[2]))

\* The largest number of faces of a face list handed to add_triangles
\* directly, and the vertex counts of a face.
MaxFaces == 2
FaceVertexCounts == {2, 3, 4, 5}

RECURSIVE Sum(_, _)
\* The sum of the first n entries of a sequence of numbers.
Sum(seq, n) == IF n = 0 THEN 0 ELSE seq[n] + Sum(seq, n - 1)

\* The face lists: the per-face vertex counts.
FaceCounts == UNION {[1..n -> FaceVertexCounts] : n \in 0..MaxFaces}

\* The flattened per-corner vertex indices of a face list: corner p refers to
\* vertex p, or the corners run through the vertices backwards.
FaceIndices(face_counts) ==
  LET n == Sum(face_counts, Len(face_counts))
  IN {[p \in 1..n |-> p - 1], [p \in 1..n |-> n - p]}

AddTrianglesCalls ==
  UNION {{Call("add_triangles", <<face_counts, face_indices>>) :
            face_indices \in FaceIndices(face_counts)} : face_counts \in FaceCounts}

\* add_triangles on an empty cache: the two buffers stored for the sample.
call_add_triangles ==
  /\ helper.fn = "add_triangles"
  /\ LET cached_data == add_triangles(helper.args[1], helper.args[2], 0, EmptyCachedData)
     IN return([triangles |-> cached_data.triangles.data[1].data,
                triangles_loops |-> cached_data.triangles_loops.data[1].data])

\* Unit quaternions in half units: the rotations by multiples of 180 degrees
\* about a coordinate axis and by multiples of 120 degrees about a diagonal
\* of the cube, each with either sign.
HelperQuats ==
  {q \in [1..4 -> {-2, -1, 0, 1, 2}] : quat_dot(q, q) = 4}

SlerpRotationsCalls ==
  {Call("slerp_rotations", <<prev_rotation, next_rotation>>) :
     prev_rotation \in HelperQuats, next_rotation \in HelperQuats}

\* The sign correction of the two extracted rotations in
\* get_interpolated_matrix_for_time.
call_slerp_rotations ==
  /\ helper.fn = "slerp_rotations"
  /\ return(slerp_rotations(helper.args[1], helper.args[2]))

\* The largest absolute value of a component of a vector handed to
\* make_float3_from_yup directly.
MaxCoordinate == 2

HelperVectors ==
  [1..3 -> (0 - MaxCoordinate)..MaxCoordinate]

MakeFloat3Calls == {Call("make_float3_from_yup", <<v>>) : v \in HelperVectors}

call_make_float3_from_yup ==
  /\ helper.fn = "make_float3_from_yup"
  /\ return(make_float3_from_yup(helper.args[1]))

\* The largest number of curves of a curves sample handed to the sample loop
\* of load_all_data(ICurvesSchema) directly, and the vertex counts of a curve.
MaxCurves == 3
CurveVertexCounts == {0, 1, 2, 3}

\* The per-curve vertex counts of a sample.
CurveCounts == UNION {[1..m -> CurveVertexCounts] : m \in 0..MaxCurves}

\* The positions of a sample with the given vertex counts: one position per
\* vertex, all different.
CurvePositions(curves_num_vertices) ==
  [p \in 1..Sum(curves_num_vertices, Len(curves_num_vertices)) |-> <<p, p + 1, 0 - p>>]

AddCurvesCalls ==
  {Call("add_curves", <<curves_num_vertices, CurvePositions(curves_num_vertices)>>) :
     curves_num_vertices \in CurveCounts}

\* One iteration of the sample loop of load_all_data(ICurvesSchema) on an
\* empty cache: the four buffers stored for the sample.
call_add_curves ==
  /\ helper.fn = "add_curves"
  /\ LET cached_data == add_curves(CurvesSample(helper.args[2], helper.args[1]), 0,
                                   EmptyCachedData)
     IN return([curve_keys |-> cached_data.curve_keys.data[1].data,
                curve_radius |-> cached_data.curve_radius.data[1].data,
                curve_first_key |-> cached_data.curve_first_key.data[1].data,
                curve_shader |-> cached_data.curve_shader.data[1].data])

HelperCalls ==
  InterpolateCalls \cup ConcatenateCalls \cup AddTrianglesCalls \cup SlerpRotationsCalls
    \cup MakeFloat3Calls \cup AddCurvesCalls

InitHelpers == Constructed /\ helper \in HelperCalls

NextHelpers ==
  \/ call_get_interpolated_matrix_for_time
  \/ call_concatenate_xform_samples
  \/ call_add_triangles
  \/ call_slerp_rotations
  \/ call_make_float3_from_yup
  \/ call_add_curves

SpecHelpers == InitHelpers /\ [][NextHelpers]_vars

\* ------------------------------------------------------------- properties
LoadPositions == {"load", "post_loop", "post_uvs"}

\* The renderer objects created for wrapper o.
created_for(o) == {k \in DOMAIN scene : scene[k].wrapper = o}

\* The full paths of the nodes of an archive.
NodePaths(arch) == {getFullName(arch, n) : n \in DOMAIN Tree(arch)}

\* C1: load_objects is performed exactly once: in the invocation that opens
\* the archive, and never again while the archive is open.
C1_WalkExactlyOnce ==
  /\ hist.walks <= 1
  /\ (hist.walks = 1) <=> (archive # NoArchive)

\* A later invocation has reached its object loop; the walk count is still one.
C1_Witness ==
  /\ pc = "objects" /\ obj_i = 1 /\ scene # <<>>
  /\ objects_loaded /\ hist.walks = 1

\* C2: once an object's data-loaded flag is true, load_all_data is never run
\* for it again and its cache is never changed; later frames slice the cache.
C2_LoadedOnce ==
  [][\A o \in 1..NumObjects :
       objects[o].data_loaded =>
         /\ objects'[o].data_loaded
         /\ objects'[o].cached_data = objects[o].cached_data
         /\ ~(pc' \in LoadPositions /\ obj_i' = o)]_vars

\* The animated mesh was materialized from its cache at the second sample.
C2_Witness ==
  /\ archive = "a.abc"
  /\ ret = "done" /\ frame = 24
  /\ objects[2].data_loaded /\ hist.cached[2]
  /\ scene[objects[2].object].verts = objects[2].cached_data.vertices.data[2].data

\* C3: at most one renderer object is ever created for a wrapper, and the
\* wrapper keeps pointing at it.
C3_CreatedOnce ==
  \A o \in 1..NumObjects :
    /\ Cardinality(created_for(o)) <= 1
    /\ objects[o].object # 0 => created_for(o) = {objects[o].object}

\* A wrapper was materialized again after its first materialization.
C3_Witness ==
  /\ hist.cached[2] /\ objects[2].object # 0
  /\ Cardinality(created_for(2)) = 1
  /\ ret = "done"

\* C4: a failed open clears the path and the modified state and returns
\* without walking or materializing; no open is attempted again until the
\* path is set again.
C4_FailedOpenSuppressesRetries ==
  [][/\ (pc = "entry" /\ pc' # "entry" /\ modified /\ archive = NoArchive
           /\ getArchive(filepath) = NoArchive)
          => /\ filepath' = EmptyPath /\ ~modified' /\ pc' = "idle"
             /\ UNCHANGED <<objects, scene, objects_loaded>>
             /\ hist'.walks = hist.walks
     /\ hist.open_failed /\ hist'.open_failed => hist'.opens = hist.opens]_vars

\* C5: after a successful open, a changed path makes the next generate close
\* the archive and open the one at the new path; with the path unchanged the
\* archive is never reopened.
C5_ReopenOnPathChange ==
  [][/\ (pc = "entry" /\ pc' # "entry" /\ modified /\ archive # NoArchive
           /\ filepath # archive)
          => archive' = getArchive(filepath) /\ hist'.opens # hist.opens
     /\ (archive # NoArchive /\ filepath = archive /\ filepath' = filepath)
          => archive' = archive /\ hist'.opens = hist.opens]_vars

\* C6: in the object loop a loaded constant object is skipped (wrappers and
\* renderer objects untouched); any other object bound to a mesh or curves
\* node is handed to read_mesh or read_curves respectively.
C6_SkipConstantElseDispatch ==
  [][(pc = "objects" /\ ~cancel /\ (pc' # pc \/ obj_i' # obj_i)) =>
       LET o == obj_i
           w == objects[o]
           kind == header_kind(archive, w.iobject)
       IN IF w.data_loaded /\ num_samples(w.cached_data) = 1
          THEN /\ objects' = objects /\ scene' = scene
               /\ hist'.routine[o] = "skipped"
          ELSE /\ kind = "PolyMesh" =>
                    /\ hist'.routine[o] = "read_mesh"
                    /\ scene'[objects'[o].object].geometry = "Mesh"
               /\ kind = "Curves" =>
                    /\ hist'.routine[o] = "read_curves"
                    /\ scene'[objects'[o].object].geometry = "Hair"]_vars

\* A constant object was skipped and an animated one read from its cache.
C6_Witness ==
  /\ ret = "done"
  /\ hist.routine[4] = "skipped" /\ objects[4].data_loaded
  /\ hist.routine[2] = "read_mesh" /\ hist.cached[2]
  /\ hist.routine[5] = "read_curves"

\* C7: generate on an unmodified procedural returns at once and changes
\* neither the archive, the flags, the wrappers nor the renderer objects.
C7_Unmodified ==
  [][(pc = "entry" /\ ~modified) =>
       /\ UNCHANGED <<filepath, modified, archive, objects_loaded, objects, scene,
                      walk_stack, hist>>
       /\ pc' = "entry" \/ (pc' = "idle" /\ ret' = "unmodified")]_vars

\* An invocation was short-circuited after the objects had been materialized.
C7_Witness ==
  /\ pc = "idle" /\ ret = "unmodified"
  /\ archive # NoArchive /\ scene # <<>>

\* C8: a wrapper whose path is the path of no node of the archive is never
\* bound, never loaded, and no renderer object is created for it.
C8_UnmatchedPath ==
  \A o \in 1..NumObjects :
    objects[o].path \notin NodePaths(archive) =>
      /\ objects[o].iobject = NoObject
      /\ ~objects[o].data_loaded
      /\ objects[o].object = 0
      /\ created_for(o) = {}

\* generate has completed on an archive that lacks the path of wrapper 1.
C8_Witness ==
  /\ ret = "done" /\ archive = "a.abc"
  /\ objects[1].path \notin NodePaths(archive)
  /\ objects[2].data_loaded /\ hist.routine[1] = "none"

\* C9: when a poll of a sample loop of load_all_data sees the cancellation
\* flag at index load_i, the routine returns before the last index, the flag
\* data_loaded stays false and no channel holds more than load_i samples.
C9_CancelledLoad ==
  [][(pc = "load" /\ cancel) =>
       LET o == obj_i
           n == Len(Tree(archive)[objects[o].iobject].samples)
       IN /\ pc' \notin LoadPositions
          /\ load_i < n
          /\ ~objects'[o].data_loaded
          /\ \A c \in SampleChannels :
               Len(objects'[o].cached_data[c].data) <= load_i]_vars

\* A mesh load was cancelled after one of its two samples.
C9_Witness ==
  /\ pc = "idle" /\ ret = "cancelled"
  /\ objects[2].iobject # NoObject /\ ~objects[2].data_loaded
  /\ Len(objects[2].cached_data.vertices.data) = 1
  /\ Len(objects[2].cached_data.triangles.data) = 1

\* C10: when all collected transform samples equal the first sample's matrix,
\* the transform cache holds exactly one entry, at time 0.
C10_ConstantTransformCollapses ==
  \A o \in 1..NumObjects :
    LET xs == objects[o].xform_samples
        tf == objects[o].cached_data.transforms.data
    IN (/\ objects[o].data_loaded
        /\ DOMAIN xs # {}
        /\ \A t \in DOMAIN xs : xs[t] = xs[SetMin(DOMAIN xs)])
       => Len(tf) = 1 /\ tf[1].time = 0

\* The translation by (0,0,0.5) of the up=Z convention, in half units.
HalfwayTransform == << <<1, 0, 0, 0>>, <<0, 1, 0, 0>>, <<0, 0, 1, 1>> >>

\* C11: in archive "b.abc" (one transform node with keyframes identity at
\* t = 0 and translation by (0,1,0) at t = 1s above a mesh leaf with one
\* position sample), a generate call that completed for the frame time 0.5s
\* with the cache loaded leaves the translation by (0,0,0.5) on the renderer
\* object.
C11_HalfwayTransformPushed ==
  (/\ archive = "b.abc" /\ pc = "idle" /\ ~modified /\ frame_time = 12
   /\ objects[2].data_loaded /\ objects[2].object # 0)
  => scene[objects[2].object].tfm = HalfwayTransform

\* A direct call of get_interpolated_matrix_for_time has returned.
Interpolated == helper.fn = "get_interpolated_matrix_for_time" /\ helper.done

\* The blend of the samples at keys lo and hi for the time, by the factor
\* (time - lo) / (hi - lo), of scale and translation.
Blend(samples, lo, hi, time) ==
  LET prev == transform_decompose(samples[lo])
      next == transform_decompose(samples[hi])
  IN transform_compose(lerp(prev.scale, next.scale, time - lo, hi - lo),
                       lerp(prev.translation, next.translation, time - lo, hi - lo))

\* C12: for a sample set with at least two keys and a time strictly between
\* two adjacent keys, the result is the blend of the samples at the largest
\* key below and the smallest key above the time.
C12_AdjacentBracket ==
  Interpolated =>
    LET samples == helper.args[1]
        time == helper.args[2]
        keys == DOMAIN samples
    IN (/\ Cardinality(keys) >= 2 /\ time \notin keys
        /\ SetMin(keys) < time /\ time < SetMax(keys))
       => helper.result = Blend(samples, SetMax({k \in keys : k < time}),
                                SetMin({k \in keys : k > time}), time)

\* C13: for a non-empty sample set the result is the first sample for a time
\* at or before the first key, the last sample for a time at or after the
\* last key, the stored sample for a time that is a key, and the only sample
\* of a single-sample set for every time.
C13_ClampExactSingle ==
  Interpolated =>
    LET samples == helper.args[1]
        time == helper.args[2]
        keys == DOMAIN samples
    IN keys # {} =>
         /\ time <= SetMin(keys) => helper.result = samples[SetMin(keys)]
         /\ time >= SetMax(keys) => helper.result = samples[SetMax(keys)]
         /\ time \in keys => helper.result = samples[time]
         /\ Cardinality(keys) = 1 => helper.result = samples[SetMin(keys)]

\* A call for a time before the first of several keys, whose sample is not
\* the identity, has returned.
C13_Witness ==
  /\ Interpolated
  /\ Cardinality(DOMAIN helper.args[1]) >= 2
  /\ helper.args[2] < SetMin(DOMAIN helper.args[1])
  /\ helper.result = helper.args[1][SetMin(DOMAIN helper.args[1])]

\* A direct call of concatenate_xform_samples has returned.
Concatenated == helper.fn = "concatenate_xform_samples" /\ helper.done

\* C14: the keys of the output are the union of the keys of the two inputs,
\* and the output at each key is the local input interpolated at the key
\* times the parent input interpolated at the key.
C14_ConcatenateUnionLocalTimesParent ==
  Concatenated =>
    LET parent_samples == helper.args[1]
        local_samples == helper.args[2]
    IN /\ DOMAIN helper.result = DOMAIN parent_samples \cup DOMAIN local_samples
       /\ \A t \in DOMAIN helper.result :
            helper.result[t] =
              M44d_mul(get_interpolated_matrix_for_time(local_samples, t),
                       get_interpolated_matrix_for_time(parent_samples, t))

\* Two inputs with different keys were concatenated, and at a key that only
\* the local input has the product depends on the order of its factors.
C14_Witness ==
  /\ Concatenated
  /\ \E t \in DOMAIN helper.args[2] \ DOMAIN helper.args[1] :
       /\ DOMAIN helper.args[1] # {}
       /\ helper.result[t] # M44d_mul(get_interpolated_matrix_for_time(helper.args[1], t),
                                       get_interpolated_matrix_for_time(helper.args[2], t))

\* A direct call of add_triangles has returned.
Triangulated == helper.fn = "add_triangles" /\ helper.done

\* The flattened corner offset of face i of a face list.
CornerOffset(face_counts, i) == Sum(face_counts, i - 1)

\* The positions in the triangle buffers of the triangles whose loop indices
\* all lie in the corner range of face i.
TrianglesOfFace(face_counts, triangles_loops, i) ==
  {k \in 1..Len(triangles_loops) :
     \A c \in 1..3 :
       /\ triangles_loops[k][c] >= CornerOffset(face_counts, i)
       /\ triangles_loops[k][c] <= CornerOffset(face_counts, i) + face_counts[i] - 1}

\* C15: a polygon with N >= 3 vertices gets exactly N - 2 triangles; the
\* three loop indices of each are pairwise distinct and inside the polygon's
\* corner range, and together the triangles cover every corner of the
\* polygon.  No triangle lies outside every polygon.
C15_FanTriangulation ==
  Triangulated =>
    LET face_counts == helper.args[1]
        loops == helper.result.triangles_loops
    IN /\ \A i \in 1..Len(face_counts) :
            face_counts[i] >= 3 =>
              LET mine == TrianglesOfFace(face_counts, loops, i)
              IN /\ Cardinality(mine) = face_counts[i] - 2
                 /\ \A k \in mine : Cardinality({loops[k][c] : c \in 1..3}) = 3
                 /\ UNION {{loops[k][c] : c \in 1..3} : k \in mine} =
                      CornerOffset(face_counts, i) ..
                        (CornerOffset(face_counts, i) + face_counts[i] - 1)
       /\ \A k \in 1..Len(loops) :
            \E i \in 1..Len(face_counts) : k \in TrianglesOfFace(face_counts, loops, i)

\* A face list with a pentagon after another polygon was triangulated.
C15_Witness ==
  /\ Triangulated
  /\ Len(helper.args[1]) = 2 /\ helper.args[1][1] >= 3 /\ helper.args[1][2] = 5
  /\ Cardinality(TrianglesOfFace(helper.args[1], helper.result.triangles_loops, 2)) = 3

\* The position in the triangle buffers before the first triangle of face i.
TriangleBase(face_counts, i) ==
  Sum([m \in 1..Len(face_counts) |-> Max2(0, face_counts[m] - 2)], i - 1)

\* C16: triangle k of the polygon starting at corner offset o has the loop
\* indices (o, o+k+1, o+k+2) and, as vertex indices, the face indices at
\* those three loop positions; the two buffers have the same length; the
\* quad [0,1,2,3] yields the triangles (0,1,2) and (0,2,3) with the same
\* loop indices.
C16_ParallelLoops ==
  Triangulated =>
    LET face_counts == helper.args[1]
        face_indices == helper.args[2]
        triangles == helper.result.triangles
        loops == helper.result.triangles_loops
    IN /\ Len(triangles) = Len(loops)
       /\ Len(loops) = TriangleBase(face_counts, Len(face_counts) + 1)
       /\ \A i \in 1..Len(face_counts) : \A k \in 0..(face_counts[i] - 3) :
            LET o == CornerOffset(face_counts, i)
            IN loops[TriangleBase(face_counts, i) + k + 1] = <<o, o + k + 1, o + k + 2>>
       /\ \A n \in 1..Len(loops) : \A c \in 1..3 :
            triangles[n][c] = face_indices[loops[n][c] + 1]
       /\ (face_counts = <<4>> /\ face_indices = <<0, 1, 2, 3>>)
            => /\ triangles = << <<0, 1, 2>>, <<0, 2, 3>> >>
               /\ loops = << <<0, 1, 2>>, <<0, 2, 3>> >>

\* A quad whose corners run through the vertices backwards was triangulated
\* after another polygon: loop indices and vertex indices differ.
C16_Witness ==
  /\ Triangulated
  /\ Len(helper.args[1]) = 2 /\ helper.args[1][1] >= 3 /\ helper.args[1][2] = 4
  /\ Len(helper.result.triangles) = helper.args[1][1]
  /\ helper.result.triangles[Len(helper.result.triangles)] #
       helper.result.triangles_loops[Len(helper.result.triangles)]

\* C17: an object whose cache was finalized without collected transform
\* samples has exactly one transform entry, the identity transform at time
\* zero.
C17_NoSamplesIdentityAtZero ==
  \A o \in 1..NumObjects :
    (objects[o].data_loaded /\ DOMAIN objects[o].xform_samples = {})
    => objects[o].cached_data.transforms.data =
         <<[time |-> 0, data |-> transform_identity]>>

\* The mesh below the transform without operations was loaded.
C17_Witness ==
  /\ archive = "a.abc"
  /\ objects[4].iobject # NoObject /\ objects[4].data_loaded
  /\ DOMAIN objects[4].xform_samples = {}
  /\ Len(objects[4].cached_data.transforms.data) = 1

\* The sign correction of a pair of extracted rotations has run.
SignCorrected == helper.fn = "slerp_rotations" /\ helper.done

\* C18: the target quaternion handed to the spherical interpolation is the
\* extracted one, negated exactly when its dot product with the source
\* quaternion is negative, so the dot product of the pair handed over is
\* never negative.
C18_ShortestArc ==
  SignCorrected =>
    LET prev_rotation == helper.args[1]
        next_rotation == helper.args[2]
    IN /\ helper.result.prev = prev_rotation
       /\ helper.result.next =
            (IF quat_dot(prev_rotation, next_rotation) < 0
             THEN quat_neg(next_rotation) ELSE next_rotation)
       /\ quat_dot(helper.result.prev, helper.result.next) >= 0

\* Two rotations whose extracted quaternions have a negative dot product
\* were corrected.
C18_Witness ==
  /\ SignCorrected
  /\ quat_dot(helper.args[1], helper.args[2]) < 0
  /\ helper.result.next = quat_neg(helper.args[2])

\* A direct call of make_float3_from_yup has returned.
Converted == helper.fn = "make_float3_from_yup" /\ helper.done

\* The inverse remap (x, y, z) -> (x, z, -y).
InverseRemap(v) == <<v[1], v[3], 0 - v[2]>>

\* C19: the conversion maps (x, y, z) to (x, -z, y), and the inverse remap
\* applied to the converted vector gives the original vector back.
C19_UpAxisRoundTrip ==
  Converted =>
    LET v == helper.args[1]
    IN /\ helper.result = <<v[1], 0 - v[3], v[2]>>
       /\ InverseRemap(helper.result) = v

\* A vector with three different non-zero components was converted.
C19_Witness ==
  /\ Converted
  /\ helper.args[1] = <<1, 2, -1>>
  /\ helper.result = <<1, 1, 2>>

\* C20: once a generate call has run to its end without being cancelled,
\* every declared object whose path exists in the open archive is bound to
\* its archive node, also when an earlier call was cancelled during the
\* hierarchy walk.
C20_CancelledWalkRedone ==
  (pc = "idle" /\ ret = "done" /\ archive # NoArchive)
  => \A o \in 1..NumObjects :
       ObjectPaths[o] \in NodePaths(archive) => objects[o].iobject # NoObject

\* The cache of wrapper w, bound to the mesh node, holds exactly the samples
\* of a complete load: per archive sample one entry of positions, triangles
\* and triangle loops at the sample's time, the transforms of the collected
\* transform samples, no curve data, and per attribute at most one entry per
\* sample time.
IsCompleteMeshCache(node, w) ==
  LET cd == w.cached_data
      n == Len(node.samples)
      one(i) == add_mesh(node.samples[i], getSampleTime(node.ts, i - 1), EmptyCachedData)
  IN /\ cd.vertices.data = [i \in 1..n |-> one(i).vertices.data[1]]
     /\ cd.triangles.data = [i \in 1..n |-> one(i).triangles.data[1]]
     /\ cd.triangles_loops.data = [i \in 1..n |-> one(i).triangles_loops.data[1]]
     /\ cd.vertices.time_sampling = node.ts
     /\ cd.transforms =
          setup_transform_cache(w.xform_samples,
                                begin_load(EmptyCachedData, "PolyMesh", node.ts)).transforms
     /\ \A c \in {"curve_keys", "curve_radius", "curve_first_key", "curve_shader"} :
          cd[c].data = <<>>
     /\ \A k \in 1..Len(cd.attributes) :
          LET data == cd.attributes[k].data.data
          IN /\ Len(data) <= n
             /\ \A a, b \in 1..Len(data) : a < b => data[a].time < data[b].time

\* C21: a mesh load that returns on the cancellation flag (in the sample
\* loop or at a later poll) leaves data_loaded false; the next
\* materialization of the object that is not cancelled starts by clearing
\* the whole cache; and every step that changes a wrapper and leaves it with
\* data_loaded true leaves it with exactly the samples of a complete load.
C21_CancelledLoadRedone ==
  [][/\ (pc \in LoadPositions /\ cancel) =>
         /\ ~objects'[obj_i].data_loaded
         /\ pc' \notin LoadPositions
     /\ (/\ pc = "objects" /\ ~cancel /\ pc' # pc /\ ~objects[obj_i].data_loaded
         /\ header_kind(archive, objects[obj_i].iobject) = "PolyMesh") =>
           /\ pc' \in LoadPositions /\ obj_i' = obj_i /\ load_i' = 0
           /\ objects'[obj_i].cached_data =
                begin_load(EmptyCachedData, "PolyMesh",
                           Tree(archive)[objects[obj_i].iobject].ts)
     /\ \A o \in 1..NumObjects :
          (/\ objects'[o] # objects[o] /\ objects'[o].data_loaded
           /\ header_kind(archive, objects'[o].iobject) = "PolyMesh")
          => IsCompleteMeshCache(Tree(archive)[objects'[o].iobject], objects'[o])]_vars

\* The load of the two-sample mesh was cancelled after its first sample had
\* been cached, and a later materialization has loaded it completely.
C21_Witness ==
  /\ archive = "a.abc" /\ hist.interrupted = 2
  /\ objects[2].data_loaded
  /\ Len(objects[2].cached_data.vertices.data) = 2
  /\ Len(objects[2].cached_data.attributes) > 0

\* C22: a walk_hierarchy call that finds the cancellation flag set returns
\* before processing its node: no wrapper is given an archive node or
\* transform samples, and no call for a child is made, so the pending calls
\* only ever shrink once the flag is set.
C22_CancelledWalkTouchesNothing ==
  [][(pc = "walk" /\ cancel) =>
       /\ objects' = objects
       /\ walk_stack' = Tail(walk_stack)
       /\ UNCHANGED <<archive, scene>>]_vars

\* The walk of "a.abc" was cancelled after the mesh below /xa had been bound
\* and before the curves below /xa/xb were reached.
C22_Witness ==
  /\ archive = "a.abc" /\ objects_loaded /\ cancel
  /\ pc = "idle" /\ ret = "cancelled"
  /\ objects[2].iobject # NoObject
  /\ objects[5].iobject = NoObject /\ DOMAIN objects[5].xform_samples = {}

\* The wrappers bound to a mesh or a curves node.
BoundObjects ==
  {o \in 1..NumObjects : header_kind(archive, objects[o].iobject) \in {"PolyMesh", "Curves"}}

\* C23: when the poll at the head of the object loop of generate sees the
\* cancellation flag, generate returns at once: wrappers and renderer
\* objects stay as they are and the procedural stays modified.  The next
\* invocation is therefore not short-circuited, and when it runs to its end
\* every bound object has its renderer object and, unless its own load was
\* cancelled, its cache.
C23_CancelledLoopResumes ==
  [][/\ (pc = "objects" /\ cancel) =>
         /\ pc' = "idle" /\ ret' = "cancelled"
         /\ modified /\ modified'
         /\ UNCHANGED <<objects, scene, archive, objects_loaded>>
     /\ (pc = "idle" /\ ret = "cancelled") => modified
     /\ (pc = "entry" /\ ret = "cancelled" /\ pc' # pc) =>
         ~(pc' = "idle" /\ ret' = "unmodified")
     /\ (ret = "cancelled" /\ ret' = "done") =>
         \A o \in BoundObjects :
           /\ objects'[o].object # 0
           /\ created_for(o)' = {objects'[o].object}
           /\ objects'[o].data_loaded \/ hist'.interrupted = o]_vars

\* After a call cancelled in the object loop (every declared path of
\* "a.abc" is bound and no load was cut short), the next call has pushed
\* the curves below /xc from the cache an earlier call had loaded and has
\* loaded the constant mesh the cancelled call had not reached.
C23_Witness ==
  /\ archive = "a.abc" /\ ret = "cancelled" /\ ~cancel
  /\ pc = "objects" /\ obj_i = 5
  /\ hist.interrupted = 0 /\ objects[5].iobject # NoObject
  /\ hist.routine[3] = "read_curves" /\ hist.cached[3]
  /\ hist.routine[4] = "read_mesh" /\ objects[4].data_loaded /\ objects[4].object # 0

\* The sample set a transform node with the given set in scope hands to its
\* children.
HandedDown(node, xs) ==
  LET local == [t \in {node.ts.start + (i - 1) * node.ts.step : i \in 1..Len(node.xforms)} |->
                  node.xforms[((t - node.ts.start) \div node.ts.step) + 1]]
  IN IF node.num_ops = 0 THEN xs
     ELSE IF xs.null THEN [null |-> FALSE, map |-> local]
     ELSE [null |-> FALSE, map |-> concatenate_xform_samples(xs.map, local)]

\* C24: a walk_hierarchy call for a transform node makes one call per child,
\* in order, and each receives: the set in scope as it is when the node has
\* no operations; the node's own samples when it has operations and no set
\* is in scope; the concatenation of the set in scope with the node's own
\* samples when it has operations and a set is in scope.
C24_AccumulatedSamples ==
  [][(pc = "walk" /\ ~cancel /\ walk_stack' # walk_stack
      /\ Tree(archive)[Head(walk_stack).node].kind = "Xform") =>
       LET call == Head(walk_stack)
           kids == Children(archive, call.node)
       IN /\ pc' = "walk" => Len(walk_stack') = Len(walk_stack) - 1 + Len(kids)
          /\ \A k \in 1..Len(kids) :
               walk_stack'[k] = [node |-> kids[k],
                                 xs |-> HandedDown(Tree(archive)[call.node], call.xs)]]_vars

\* The walk of "a.abc" is about to visit the curves below /xa/xb with the
\* concatenation of the two transforms' samples, after the mesh below /xa
\* was handed the samples of /xa alone.
C24_Witness ==
  /\ archive = "a.abc" /\ pc = "walk" /\ walk_stack # <<>>
  /\ Head(walk_stack).node = 13
  /\ ~Head(walk_stack).xs.null
  /\ DOMAIN Head(walk_stack).xs.map = {0, 12, 24}
  /\ Head(walk_stack).xs.map[12] = ScaleTrans(<<1, 1, 1>>, <<4, 1, 0>>)
  /\ DOMAIN objects[2].xform_samples = {0, 24}

RECURSIVE Accumulated(_, _)
\* The sample set accumulated along the chain from the top object down to
\* node n, n included.
Accumulated(arch, n) ==
  IF n = 0 THEN [null |-> TRUE, map |-> EmptySampleMap]
  ELSE LET above == Accumulated(arch, Tree(arch)[n].parent)
       IN IF Tree(arch)[n].kind = "Xform" THEN HandedDown(Tree(arch)[n], above) ELSE above

\* C25: a walk_hierarchy call for a mesh or curves node changes exactly the
\* wrapper declared for the node's full path: it is given the node and,
\* when a set is in scope, a copy of the set accumulated along the node's
\* own ancestor chain.  Without a wrapper declared for the path no wrapper
\* changes.
C25_LeafBinding ==
  [][(pc = "walk" /\ ~cancel /\ walk_stack' # walk_stack
      /\ Tree(archive)[Head(walk_stack).node].kind \in {"PolyMesh", "Curves"}) =>
       LET n == Head(walk_stack).node
           declared == {o \in 1..NumObjects : ObjectPaths[o] = getFullName(archive, n)}
           acc == Accumulated(archive, n)
       IN /\ \A o \in (1..NumObjects) \ declared : objects'[o] = objects[o]
          /\ Cardinality(declared) <= 1
          /\ \A o \in declared :
               /\ objects'[o].iobject = n
               /\ objects'[o].xform_samples =
                    (IF acc.null THEN objects[o].xform_samples ELSE acc.map)
               /\ objects'[o].path = objects[o].path
               /\ objects'[o].cached_data = objects[o].cached_data
               /\ objects'[o].data_loaded = objects[o].data_loaded]_vars

\* The walk of "a.abc" has ended: the curves below /xa/xb hold the samples of
\* /xa and /xa/xb combined, the curves below /xc hold the samples of /xc
\* alone, and the mesh below /xn holds none.
C25_Witness ==
  /\ archive = "a.abc" /\ objects_loaded /\ pc = "objects" /\ obj_i = 1
  /\ objects[5].iobject = 13
  /\ objects[5].xform_samples = Accumulated("a.abc", 12).map
  /\ DOMAIN objects[5].xform_samples = {0, 12, 24}
  /\ objects[3].iobject = 5
  /\ objects[3].xform_samples = [t \in {0, 24} |-> ScaleTrans(<<2, 1, 1>>, <<1, 2, 3>>)]
  /\ objects[4].iobject = 7 /\ DOMAIN objects[4].xform_samples = {}

\* C26: a walk_hierarchy call for a subdivision-surface, point-cloud or
\* NURBS node changes no wrapper and makes one call per child of the node,
\* with the sample set in scope; a call for a face-set node makes no call
\* for a child.
C26_PlaceholderDescent ==
  [][(pc = "walk" /\ ~cancel /\ walk_stack' # walk_stack) =>
       LET call == Head(walk_stack)
           kind == Tree(archive)[call.node].kind
           kids == Children(archive, call.node)
       IN /\ kind \in {"SubD", "Points", "NuPatch"} =>
               /\ objects' = objects
               /\ \A k \in 1..Len(kids) :
                    /\ Len(walk_stack') >= k
                    /\ walk_stack'[k] = [node |-> kids[k], xs |-> call.xs]
          /\ kind = "FaceSet" =>
               /\ objects' = objects
               /\ pc' = "walk" => walk_stack' = Tail(walk_stack)]_vars

\* The sockets that define the topology of a geometry.
TopologySockets(geometry) ==
  IF geometry = "Mesh" THEN {"triangles"} ELSE {"curve_keys", "curve_radius"}

\* The step is the return of read_mesh or read_curves for the object the
\* loop of generate is at.
Materializes ==
  /\ pc \in {"objects"} \cup LoadPositions
  /\ ~(pc = "objects" /\ cancel)
  /\ obj_i' # obj_i
  /\ header_kind(archive, objects[obj_i].iobject) \in {"PolyMesh", "Curves"}
  /\ ~(pc = "objects" /\ skip_constant(objects[obj_i]))

\* C27: a materialization notifies the scene only if the modification flags
\* of the geometry are not all clear, and the notification asks for a
\* rebuild exactly when a topology-defining socket (triangles of a mesh;
\* curve keys or radii of curves) is flagged.
C27_NotifyOnlyOnChange ==
  [][Materializes =>
       LET so == scene'[objects'[obj_i].object]
       IN so.tag # "none" =>
            /\ so.socket_modified # {}
            /\ (so.tag = "rebuild") <=>
                 (TopologySockets(so.geometry) \cap so.socket_modified # {})]_vars

\* The colour parameters (C3f or C4f) of a node.
ColorParams(node) ==
  {j \in 1..Len(node.arb) : node.arb[j].type \in {"C3f", "C4f"}}

\* C28: in the cache of a loaded mesh, the attribute of a named colour
\* parameter (3 or 4 components) whose scope is not the per-corner
\* (face-varying) one holds no sample.
C28_ColorOnlyPerCorner ==
  \A o \in 1..NumObjects :
    (objects[o].data_loaded /\ header_kind(archive, objects[o].iobject) = "PolyMesh") =>
      LET node == Tree(archive)[objects[o].iobject]
          attributes == objects[o].cached_data.attributes
      IN \A j \in ColorParams(node) :
           LET k == attribute_index(attributes, node.arb[j].name)
           IN (k # 0 /\ node.arb[j].scope # "kFacevaryingScope")
              => attributes[k].data.data = <<>>

\* The parameter is of a type and scope that read_attribute has no case for,
\* whichever of the per-corner and the varying scope is taken as the colour
\* case.
UnhandledParam(param) ==
  /\ ~(param.type = "V2f_uv" /\ param.scope = "kFacevaryingScope")
  /\ ~(param.type \in {"C3f", "C4f"}
         /\ param.scope \in {"kFacevaryingScope", "kVaryingScope"})

\* The names requested for wrapper o that are absent from the property list
\* of the node or present with an unhandled type/scope combination only.
SkippedRequests(node, o) ==
  ({ShaderRequests[o][j] : j \in 1..Len(ShaderRequests[o])} \ {""})
    \ {node.arb[j].name : j \in {j \in 1..Len(node.arb) : ~UnhandledParam(node.arb[j])}}

\* C29: an iteration of the sample loop of a mesh load that is not cancelled
\* caches the positions and triangles of its sample and goes on to the next
\* index, whatever attributes are requested; the polls after the loop, when
\* not cancelled, end in data_loaded with one entry of positions and
\* triangles per sample; and a requested attribute that is absent or of an
\* unhandled type/scope combination has no sample in the cache and no
\* buffer in the renderer mesh.
C29_SkippedAttributeHarmless ==
  [][/\ (/\ pc = "load" /\ ~cancel /\ (pc' # pc \/ load_i' # load_i)
         /\ header_kind(archive, objects[obj_i].iobject) = "PolyMesh") =>
           /\ pc' \in {"load", "post_loop"} /\ obj_i' = obj_i /\ load_i' = load_i + 1
           /\ Len(objects'[obj_i].cached_data.vertices.data) = load_i'
           /\ Len(objects'[obj_i].cached_data.triangles.data) = load_i'
     /\ (pc = "post_loop" /\ ~cancel /\ pc' # pc) => pc' = "post_uvs" /\ obj_i' = obj_i
     /\ (pc = "post_uvs" /\ ~cancel /\ pc' # pc) =>
           /\ objects'[obj_i].data_loaded
           /\ Len(objects'[obj_i].cached_data.vertices.data) =
                Len(Tree(archive)[objects[obj_i].iobject].samples)
           /\ Len(objects'[obj_i].cached_data.triangles.data) =
                Len(Tree(archive)[objects[obj_i].iobject].samples)
     /\ \A o \in 1..NumObjects :
          header_kind(archive', objects'[o].iobject) = "PolyMesh" =>
            \A name \in SkippedRequests(Tree(archive')[objects'[o].iobject], o) :
              /\ \A k \in 1..Len(objects'[o].cached_data.attributes) :
                   objects'[o].cached_data.attributes[k].name = name
                   => objects'[o].cached_data.attributes[k].data.data = <<>>
              /\ objects'[o].object # 0 =>
                   \A k \in 1..Len(scene'[objects'[o].object].attributes) :
                     scene'[objects'[o].object].attributes[k].name # name]_vars

\* The mesh below /xa was loaded with requests for an absent attribute, a
\* two-component attribute that is not a UV set, a colour of uniform scope
\* and a UV set of varying scope: each has an empty entry in the cache, and
\* the mesh was pushed with the handled UV set "st" only of these names.
C29_Witness ==
  /\ archive = "a.abc" /\ pc = "idle" /\ ret = "done"
  /\ objects[2].data_loaded
  /\ Len(objects[2].cached_data.vertices.data) = 2
  /\ \A name \in {"absent", "N2", "Cu", "sv"} :
       /\ name \in SkippedRequests(Tree(archive)[objects[2].iobject], 2)
       /\ \E k \in 1..Len(objects[2].cached_data.attributes) :
            /\ objects[2].cached_data.attributes[k].name = name
            /\ objects[2].cached_data.attributes[k].data.data = <<>>
  /\ \E k \in 1..Len(scene[objects[2].object].attributes) :
       scene[objects[2].object].attributes[k].name = "st"

\* A direct call of the curves sample loop body has returned.
CurvesCached == helper.fn = "add_curves" /\ helper.done

\* C30: for a curves sample with the per-curve vertex counts c[1..m], the
\* cached sample has m first-key entries, entry i being the sum of the
\* counts before curve i; m shader entries, all 0; and as many keys and as
\* many radii as the counts sum to, every radius being the one placeholder.
C30_CurveArrays ==
  CurvesCached =>
    LET c == helper.args[1]
        m == Len(c)
        r == helper.result
    IN /\ Len(r.curve_first_key) = m
       /\ \A i \in 1..m : r.curve_first_key[i] = Sum(c, i - 1)
       /\ r.curve_shader = [i \in 1..m |-> 0]
       /\ Len(r.curve_keys) = Sum(c, m)
       /\ Len(r.curve_radius) = Sum(c, m)
       /\ \A k \in 1..Len(r.curve_radius) : r.curve_radius[k] = "0.01f"

\* A sample of three curves with 2, 1 and 3 vertices was cached.
C30_Witness ==
  /\ CurvesCached
  /\ helper.args[1] = <<2, 1, 3>>
  /\ helper.result.curve_first_key = <<0, 2, 3>>
  /\ Len(helper.result.curve_keys) = 6

====
